---- MODULE Spec2Model ----
(***************************************************************************)
(* Model of the superbryn-backend appointment engine: the users and        *)
(* appointments tables with their schema constraints, the query layer      *)
(* (db/queries.ts), the cost ledger and the tool dispatcher                *)
(* (services/tools.ts), and the two orchestration loops (agent/agent.ts    *)
(* and the LiveKit tool context).                                          *)
(*                                                                         *)
(* Every `await` of the source is a point where other sessions run, so a   *)
(* dispatched tool call is a sequence of steps: the synchronous prefix of  *)
(* executeTool (addCost, argument handling), then one step per SQL         *)
(* statement.  A single SQL statement is atomic.                           *)
(***************************************************************************)
EXTENDS Integers, Sequences, FiniteSets, TLC

\* undefined / missing argument / SQL NULL
NULL == "NULL"

\* ---------------------------------------------------------------- bounds
\* executeTool invocations per behaviour of Spec (booking, modification and
\* cancellation by concurrent callers)
MaxCalls == 3
\* executeTool invocations per behaviour of SpecDispatch (every tool of the
\* catalog, arguments present or missing, the collaborator failing or not)
MaxDispatch == 3
\* identify_user invocations per behaviour of SpecUsers
MaxIdentify == 3
\* utterances per behaviour of SpecAgent and SpecLiveKit
MaxTurns == 2
\* tool calls in one model response (SpecAgent)
MaxToolCalls == 2
\* tool executions requested through the LiveKit tool context (SpecLiveKit)
MaxExec == 3
\* executeTool invocations per behaviour of SpecCatalog (one caller at a
\* time: bookings, cancellations, modifications and the read-only tools)
MaxOps == 4
\* utterances per behaviour of SpecSnapshot, and tool calls in the model's
\* response to one
MaxSnapshotTurns == 1
MaxSnapshotCalls == 4
\* tool executions per behaviour of SpecRooms (two rooms, one after the other)
MaxRoomExec == 4
\* POST /api/token requests per behaviour of SpecToken
MaxPosts == 3

Clients == {"s1", "s2"}
Contacts == {"c1", "c2"}
Dates == {"2024-01-15", "2024-01-16"}
Times == {"09:00", "10:00"}
Names == {"n1", "n2"}
Emails == {"e1", "e2"}
Requests == {"q1", "q2"}
Rooms == {"room-a", "room-b"}

VARIABLES
    users,          \* table users: set of rows
    appointments,   \* table appointments: sequence of rows in insertion order
    nextId,         \* the SERIAL sequence of appointments.id
    clock,          \* CURRENT_TIMESTAMP, advancing with every write statement
    costTracker,    \* the cost ledger (tools.ts:18)
    call,           \* per caller: the executeTool invocation in flight
    ret,            \* per caller: its last settled executeTool (tool name, envelope)
    ncalls,         \* number of executeTool invocations started
    conversation_summaries, \* table conversation_summaries, in insertion order
    summarizing,    \* the generateSummary invocations, in flight or settled
    state,          \* AppointmentAgent.state (agent.ts:16-23)
    turn,           \* per invocation of processUserMessage: where it stands, or its reply
    nturns,         \* number of utterances received
    session,        \* the AgentSessionState of the LiveKit room (part_001:50-56)
    exec,           \* the LiveKit tool `execute` callback in flight
    dispatchedRooms, \* the Set dispatchedRooms of the token server (agent.ts:357)
    token,          \* per POST /api/token handler: where it stands, or its response
    nposts,         \* number of POST /api/token requests received
    timers,         \* the pending setTimeout callbacks, in the order they were set
    dispatchLog     \* the dispatches the LiveKit server created and the removals
                    \* from dispatchedRooms, in order

\* the store and the dispatcher
storeVars == <<users, appointments, nextId, clock, costTracker, call, ret, ncalls>>
\* the conversation layer: both orchestration loops and the summary finalizer
\* the token server
httpVars == <<dispatchedRooms, token, nposts, timers, dispatchLog>>
sessVars == <<conversation_summaries, summarizing, state, turn, nturns, session, exec,
              httpVars>>
vars == <<users, appointments, nextId, clock, costTracker, call, ret, ncalls,
          conversation_summaries, summarizing, state, turn, nturns, session, exec,
          dispatchedRooms, token, nposts, timers, dispatchLog>>

\* ------------------------------------------------------------ SQL helpers
Last(s) == s[Len(s)]

\* `x || null` of the query parameters: undefined and '' both become NULL
OrNull(x) == IF x = NULL \/ x = "" THEN NULL ELSE x

\* mutant of Truthy: an absent argument passes for a supplied one
TruthyAbsent(x) == TRUE

\* JavaScript truthiness of an optional string argument
Truthy(x) == x # NULL /\ x # ""

\* mutant of Coalesce: the upsert overwrites with EXCLUDED.x
CoalesceOverwrite(new, old) == new

\* COALESCE(EXCLUDED.x, users.x)
Coalesce(new, old) == IF new # NULL THEN new ELSE old

\* the outcome of one query(): rows, or a rejected promise
Rows(rs) == [ok |-> TRUE, rows |-> rs, error |-> NULL]
Reject(msg) == [ok |-> FALSE, rows |-> <<>>, error |-> msg]

UserRow(c, n, e, ts) ==
    [contact_number |-> c, name |-> n, email |-> e, updated_at |-> ts]

AppointmentRow(id, c, d, t, st, ts) ==
    [id |-> id, contact_number |-> c, appointment_date |-> d,
     appointment_time |-> t, status |-> st, updated_at |-> ts]

\* mutant of UniqueViolated: the constraint leaves out the status column
UniqueViolatedAnyStatus(appts) ==
    \E i, j \in DOMAIN appts :
        /\ i # j
        /\ appts[i].contact_number = appts[j].contact_number
        /\ appts[i].appointment_date = appts[j].appointment_date
        /\ appts[i].appointment_time = appts[j].appointment_time

\* UNIQUE(contact_number, appointment_date, appointment_time, status)
UniqueViolated(appts) ==
    \E i, j \in DOMAIN appts :
        /\ i # j
        /\ appts[i].contact_number = appts[j].contact_number
        /\ appts[i].appointment_date = appts[j].appointment_date
        /\ appts[i].appointment_time = appts[j].appointment_time
        /\ appts[i].status = appts[j].status

\* rows of a SELECT ... WHERE p over appointments, in table order
RECURSIVE SelectRows(_, _, _)
SelectRows(appts, keep, i) ==
    IF i > Len(appts) THEN <<>>
    ELSE (IF i \in keep THEN <<appts[i]>> ELSE <<>>) \o SelectRows(appts, keep, i + 1)

\* ------------------------------------------------- db/queries.ts: users
\* mutant of createOrUpdateUser: the key column accepts NULL
createOrUpdateUserNullKey(tbl, contactNumber, name, email, now) ==
    LET row == UserRow(contactNumber, OrNull(name), OrNull(email), now)
    IN  <<Rows(<<row>>), {u \in tbl : u.contact_number # contactNumber} \cup {row}>>

\* INSERT INTO users ... ON CONFLICT (contact_number) DO UPDATE SET
\*   name = COALESCE(EXCLUDED.name, users.name), email = COALESCE(...)
\* Returns <<outcome, users'>>.
createOrUpdateUser(tbl, contactNumber, name, email, now) ==
    LET n == OrNull(name)
        e == OrNull(email)
        old == {u \in tbl : u.contact_number = contactNumber}
    IN  IF contactNumber = NULL
        THEN <<Reject("null value in column contact_number"), tbl>>
        ELSE IF old = {}
        THEN LET row == UserRow(contactNumber, n, e, now)
             IN  <<Rows(<<row>>), tbl \cup {row}>>
        ELSE LET o == CHOOSE u \in old : TRUE
                 row == UserRow(contactNumber, Coalesce(n, o.name),
                                Coalesce(e, o.email), now)
             IN  <<Rows(<<row>>), (tbl \ old) \cup {row}>>

\* ------------------------------------------ db/queries.ts: appointments
\* mutant of createConflictCheck: the SELECT leaves out the time of day
createConflictCheckDateOnly(appts, d, t) ==
    SelectRows(appts,
               {i \in DOMAIN appts :
                    /\ d # NULL /\ t # NULL
                    /\ appts[i].appointment_date = d
                    /\ appts[i].status = "confirmed"}, 1)

\* SELECT * FROM appointments WHERE appointment_date = $1
\*   AND appointment_time = $2 AND status = 'confirmed'
\* (a NULL parameter compares equal to nothing)
createConflictCheck(appts, d, t) ==
    SelectRows(appts,
               {i \in DOMAIN appts :
                    /\ d # NULL /\ t # NULL
                    /\ appts[i].appointment_date = d
                    /\ appts[i].appointment_time = t
                    /\ appts[i].status = "confirmed"}, 1)

\* mutant of insertAppointment: contact_number does not reference users
insertAppointmentNoForeignKey(appts, usrs, id, c, d, t, now) ==
    LET row == AppointmentRow(id, c, d, t, "confirmed", now)
        new == Append(appts, row)
    IN  IF c = NULL \/ d = NULL \/ t = NULL
        THEN <<Reject("null value violates not-null constraint"), appts>>
        ELSE IF UniqueViolated(new)
        THEN <<Reject("duplicate key value violates unique constraint"), appts>>
        ELSE <<Rows(<<row>>), new>>

\* INSERT INTO appointments (...) VALUES ($1, $2, $3, $4, $5, 'confirmed')
\* under the table's NOT NULL, UNIQUE and REFERENCES users constraints.
\* Returns <<outcome, appointments'>>.
insertAppointment(appts, usrs, id, c, d, t, now) ==
    LET row == AppointmentRow(id, c, d, t, "confirmed", now)
        new == Append(appts, row)
    IN  IF c = NULL \/ d = NULL \/ t = NULL
        THEN <<Reject("null value violates not-null constraint"), appts>>
        ELSE IF UniqueViolated(new)
        THEN <<Reject("duplicate key value violates unique constraint"), appts>>
        ELSE IF ~ \E u \in usrs : u.contact_number = c
        THEN <<Reject("violates foreign key constraint"), appts>>
        ELSE <<Rows(<<row>>), new>>

\* mutant of Target: the WHERE clause leaves out the owner
TargetAnyOwner(appts, id, c) ==
    {i \in DOMAIN appts : appts[i].id = id}

\* the rows an UPDATE ... WHERE id = $n AND contact_number = $m touches
\* (appointment_id 0 stands for a missing id: it equals no SERIAL value)
Target(appts, id, c) ==
    {i \in DOMAIN appts : appts[i].id = id /\ appts[i].contact_number = c}

\* an UPDATE of appointments that rewrites the target rows into `new`: the
\* statement is rejected as a whole when the result breaks the UNIQUE
\* constraint, and RETURNING * gives the rewritten rows
updateAppointments(appts, target, new) ==
    IF UniqueViolated(new)
    THEN <<Reject("duplicate key value violates unique constraint"), appts>>
    ELSE <<Rows(SelectRows(new, target, 1)), new>>

\* UPDATE appointments SET status = 'cancelled', updated_at = CURRENT_TIMESTAMP
\*   WHERE id = $1 AND contact_number = $2
cancelAppointment(appts, id, c, now) ==
    LET target == Target(appts, id, c)
    IN  updateAppointments(appts, target,
            [i \in DOMAIN appts |->
                IF i \in target
                THEN [appts[i] EXCEPT !.status = "cancelled", !.updated_at = now]
                ELSE appts[i]])

\* SELECT * FROM appointments WHERE appointment_date = $1 AND
\*   appointment_time = $2 AND status = 'confirmed' AND id != $3
modifyConflictCheck(appts, d, t, id) ==
    SelectRows(appts,
               {i \in DOMAIN appts :
                    /\ id # 0
                    /\ appts[i].appointment_date = d
                    /\ appts[i].appointment_time = t
                    /\ appts[i].status = "confirmed"
                    /\ appts[i].id # id}, 1)

\* UPDATE appointments SET [appointment_date = ..,] [appointment_time = ..,]
\*   updated_at = CURRENT_TIMESTAMP WHERE id = .. AND contact_number = ..
modifyUpdate(appts, id, c, newDate, newTime, now) ==
    LET target == Target(appts, id, c)
    IN  updateAppointments(appts, target,
            [i \in DOMAIN appts |->
                IF i \in target
                THEN [appts[i] EXCEPT
                        !.appointment_date = IF Truthy(newDate) THEN newDate ELSE @,
                        !.appointment_time = IF Truthy(newTime) THEN newTime ELSE @,
                        !.updated_at = now]
                ELSE appts[i]])

\* ORDER BY appointment_date DESC, appointment_time DESC
Ord(x) ==
    CASE x = "2024-01-15" -> 15 [] x = "2024-01-16" -> 16 [] x = "2024-01-17" -> 17
      [] x = "09:00" -> 9 [] x = "10:00" -> 10 [] x = "11:00" -> 11
      [] x = "14:00" -> 14 [] x = "15:00" -> 15

Before(a, b) ==
    \/ Ord(a.appointment_date) > Ord(b.appointment_date)
    \/ /\ a.appointment_date = b.appointment_date
       /\ Ord(a.appointment_time) > Ord(b.appointment_time)

RECURSIVE InsertSorted(_, _)
InsertSorted(sorted, r) ==
    IF sorted = <<>> THEN <<r>>
    ELSE IF Before(r, Head(sorted)) THEN <<r>> \o sorted
    ELSE <<Head(sorted)>> \o InsertSorted(Tail(sorted), r)

RECURSIVE SortRows(_)
SortRows(rs) ==
    IF rs = <<>> THEN <<>> ELSE InsertSorted(SortRows(Tail(rs)), Head(rs))

\* mutant of getAppointments: the WHERE clause leaves out the owner
getAppointmentsAnyOwner(appts, c, status) ==
    SortRows(SelectRows(appts,
        {i \in DOMAIN appts : Truthy(status) => appts[i].status = status}, 1))

\* SELECT * FROM appointments WHERE contact_number = $1 [AND status = $2]
\*   ORDER BY appointment_date DESC, appointment_time DESC
getAppointments(appts, c, status) ==
    SortRows(SelectRows(appts,
        {i \in DOMAIN appts :
            /\ appts[i].contact_number = c
            /\ (Truthy(status) => appts[i].status = status)}, 1))

\* --------------------------------------------- config/slots.ts (part_001)
AVAILABLE_SLOTS ==
    LET S(d, t) == [date |-> d, time |-> t, available |-> TRUE]
    IN  << S("2024-01-15", "09:00"), S("2024-01-15", "10:00"), S("2024-01-15", "11:00"),
           S("2024-01-15", "14:00"), S("2024-01-15", "15:00"),
           S("2024-01-16", "09:00"), S("2024-01-16", "10:00"), S("2024-01-16", "11:00"),
           S("2024-01-16", "14:00"), S("2024-01-16", "15:00"),
           S("2024-01-17", "09:00"), S("2024-01-17", "10:00"), S("2024-01-17", "11:00"),
           S("2024-01-17", "14:00"), S("2024-01-17", "15:00") >>

\* mutant of getAvailableSlots: slots holding a confirmed appointment are
\* left out
getAvailableSlotsUnbooked(date) ==
    SelectRows(AVAILABLE_SLOTS,
        {i \in DOMAIN AVAILABLE_SLOTS :
            /\ AVAILABLE_SLOTS[i].available
            /\ (Truthy(date) => AVAILABLE_SLOTS[i].date = date)
            /\ ~ \E j \in DOMAIN appointments :
                    /\ appointments[j].appointment_date = AVAILABLE_SLOTS[i].date
                    /\ appointments[j].appointment_time = AVAILABLE_SLOTS[i].time
                    /\ appointments[j].status = "confirmed"}, 1)

\* date ? AVAILABLE_SLOTS.filter(slot => slot.date === date && slot.available)
\*      : AVAILABLE_SLOTS.filter(slot => slot.available)
getAvailableSlots(date) ==
    SelectRows(AVAILABLE_SLOTS,
        {i \in DOMAIN AVAILABLE_SLOTS :
            /\ AVAILABLE_SLOTS[i].available
            /\ (Truthy(date) => AVAILABLE_SLOTS[i].date = date)}, 1)

\* ------------------------------------------------- services/tools.ts
ToolNames ==
    {"identify_user", "fetch_slots", "book_appointment", "retrieve_appointments",
     "cancel_appointment", "modify_appointment", "end_conversation"}

\* the cost of one dispatch ($0.002 for the writes on appointments, $0.001
\* for the rest), in units of $0.00001
CostOf(name) ==
    IF name \in {"book_appointment", "cancel_appointment", "modify_appointment"}
    THEN 200 ELSE 100

\* mutant of addCost: the entry takes the place of the ledger
addCostOverwrites(tracker, service, cost, unit) ==
    <<[service |-> service, cost |-> cost, unit |-> unit]>>

\* mutant of addCost: the entry is tagged with its unit
addCostMistagged(tracker, service, cost, unit) ==
    Append(tracker, [service |-> unit, cost |-> cost, unit |-> unit])

addCost(tracker, service, cost, unit) ==
    Append(tracker, [service |-> service, cost |-> cost, unit |-> unit])

\* costTracker.reduce((sum, item) => sum + item.cost, 0)
RECURSIVE getTotalCost(_)
getTotalCost(tracker) ==
    IF tracker = <<>> THEN 0
    ELSE getTotalCost(SubSeq(tracker, 1, Len(tracker) - 1)) + Last(tracker).cost

\* costTracker.length = 0, exported to the host of the module
resetCost ==
    /\ costTracker # <<>>
    /\ costTracker' = <<>>
    /\ UNCHANGED <<users, appointments, nextId, clock, call, ret, ncalls>>

\* the argument bag of a tool call; NULL marks an argument the model left out
\* (appointment_id: 0)
Args(c, d, t, id, nd, nt, n, e, st, fd) ==
    [contact_number |-> c, appointment_date |-> d, appointment_time |-> t,
     appointment_id |-> id, new_date |-> nd, new_time |-> nt,
     name |-> n, email |-> e, status |-> st, date |-> fd]

NoArgs == Args(NULL, NULL, NULL, 0, NULL, NULL, NULL, NULL, NULL, NULL)

\* the envelopes executeTool resolves with; count -1: the envelope has no
\* count field
Success(data) ==
    [kind |-> "return", success |-> TRUE, error |-> NULL, data |-> data, count |-> -1]

\* { success: true, slots / appointments: list.map(...), count: list.length }
Listed(list) == [Success(list) EXCEPT !.count = Len(list)]

\* what a caller holds once its call has settled: the tool it named and the
\* envelope it received
Settled(name, envelope) ==
    [tool |-> name, kind |-> envelope.kind, success |-> envelope.success,
     error |-> envelope.error, data |-> envelope.data, count |-> envelope.count]

\* mutant of catchError: the handler's error leaves executeTool uncaught
catchErrorRethrown(message) ==
    [kind |-> "throw", success |-> FALSE, error |-> message, data |-> <<>>,
     count |-> -1]

\* catch (error) { return { success: false, error: error.message || 'Unknown error' } }
catchError(message) ==
    [kind |-> "return", success |-> FALSE,
     error |-> IF Truthy(message) THEN message ELSE "Unknown error", data |-> <<>>,
     count |-> -1]

NoResult ==
    [tool |-> NULL, kind |-> "none", success |-> FALSE, error |-> NULL,
     data |-> <<>>, count |-> -1]

Idle == [pc |-> "idle", name |-> NULL, args |-> NoArgs]

\* { id, date, time } of the row the statement returned
Brief(row) ==
    [id |-> row.id, date |-> row.appointment_date, time |-> row.appointment_time]

\* the promise of executeTool settles: the caller receives the envelope
Settle(c, name, result) ==
    /\ call' = [call EXCEPT ![c] = Idle]
    /\ ret' = [ret EXCEPT ![c] = Settled(name, result)]

\* executeTool up to its first await: the switch on the tool name, addCost,
\* and whatever the handler does before it suspends on a query.  `tracker`
\* is the ledger at the moment of the call: the caller may have appended to
\* it earlier in the same synchronous run.
executeToolFrom(tracker, c, name, args) ==
    /\ call[c].pc = "idle"
    /\ ncalls' = ncalls + 1
    /\ costTracker' = IF name \in ToolNames
                      THEN addCost(tracker, name, CostOf(name), "call")
                      ELSE tracker
    /\ UNCHANGED <<users, appointments, nextId, clock>>
    /\ CASE name = "fetch_slots" ->
              Settle(c, name,
                     Listed([i \in DOMAIN getAvailableSlots(args.date) |->
                                [date |-> getAvailableSlots(args.date)[i].date,
                                 time |-> getAvailableSlots(args.date)[i].time]]))
         [] name = "end_conversation" ->
              Settle(c, name, Success(<<>>))
         [] name = "book_appointment" ->
              /\ call' = [call EXCEPT ![c] = [pc |-> "select", name |-> name, args |-> args]]
              /\ UNCHANGED ret
         [] name = "modify_appointment" ->
              IF Truthy(args.new_date) /\ Truthy(args.new_time)
              THEN /\ call' = [call EXCEPT ![c] =
                                  [pc |-> "select", name |-> name, args |-> args]]
                   /\ UNCHANGED ret
              ELSE IF ~ Truthy(args.new_date) /\ ~ Truthy(args.new_time)
              THEN Settle(c, name, catchError("No fields to update"))
              ELSE /\ call' = [call EXCEPT ![c] =
                                  [pc |-> "write", name |-> name, args |-> args]]
                   /\ UNCHANGED ret
         [] name \in {"identify_user", "retrieve_appointments", "cancel_appointment"} ->
              /\ call' = [call EXCEPT ![c] = [pc |-> "write", name |-> name, args |-> args]]
              /\ UNCHANGED ret
         [] OTHER ->
              Settle(c, name, catchError("Unknown tool"))

\* executeTool called with the ledger as it stands
executeTool(c, name, args) == executeToolFrom(costTracker, c, name, args)

\* the conflict SELECT of createAppointment / modifyAppointment runs;
\* fail: the persistence collaborator rejects the query
conflictCheck(c, fail) ==
    LET name == call[c].name
        a == call[c].args
        rows == IF name = "book_appointment"
                THEN createConflictCheck(appointments, a.appointment_date,
                                         a.appointment_time)
                ELSE modifyConflictCheck(appointments, a.new_date, a.new_time,
                                         a.appointment_id)
    IN  /\ call[c].pc = "select"
        /\ UNCHANGED <<users, appointments, nextId, clock, costTracker, ncalls>>
        /\ IF fail
           THEN Settle(c, name, catchError("connection error"))
           ELSE IF Len(rows) > 0
           THEN Settle(c, name,
                       catchError(IF name = "book_appointment"
                                  THEN "Appointment slot already booked"
                                  ELSE "New appointment slot already booked"))
           ELSE /\ call' = [call EXCEPT ![c].pc = "write"]
                /\ UNCHANGED ret

\* identify_user: the upsert of createOrUpdateUser runs and executeTool returns
identifyQuery(c, fail) ==
    LET a == call[c].args
        q == createOrUpdateUser(users, a.contact_number, a.name, a.email, clock + 1)
    IN  /\ call[c].pc = "write" /\ call[c].name = "identify_user"
        /\ UNCHANGED <<appointments, nextId, costTracker, ncalls>>
        /\ IF fail
           THEN /\ Settle(c, call[c].name, catchError("connection error"))
                /\ UNCHANGED <<users, clock>>
           ELSE /\ users' = q[2]
                /\ clock' = IF q[1].ok THEN clock + 1 ELSE clock
                /\ Settle(c, call[c].name,
                          IF q[1].ok THEN Success(q[1].rows) ELSE catchError(q[1].error))

\* book_appointment: the INSERT of createAppointment runs and executeTool returns
insertQuery(c, fail) ==
    LET a == call[c].args
        q == insertAppointment(appointments, users, nextId, a.contact_number,
                               a.appointment_date, a.appointment_time, clock + 1)
    IN  /\ call[c].pc = "write" /\ call[c].name = "book_appointment"
        /\ UNCHANGED <<users, costTracker, ncalls>>
        /\ IF fail
           THEN /\ Settle(c, call[c].name, catchError("connection error"))
                /\ UNCHANGED <<appointments, nextId, clock>>
           ELSE /\ appointments' = q[2]
                /\ nextId' = nextId + 1
                /\ clock' = IF q[1].ok THEN clock + 1 ELSE clock
                /\ Settle(c, call[c].name,
                          IF q[1].ok THEN Success(<<Brief(q[1].rows[1])>>)
                          ELSE catchError(q[1].error))

\* mutant of retrieveQuery: the appointments listed are marked completed
retrieveQueryCompletes(c, fail) ==
    LET a == call[c].args
        rows == getAppointments(appointments, a.contact_number, a.status)
    IN  /\ call[c].pc = "write" /\ call[c].name = "retrieve_appointments"
        /\ UNCHANGED <<users, nextId, clock, costTracker, ncalls>>
        /\ appointments' = [i \in DOMAIN appointments |->
                                IF appointments[i].contact_number = a.contact_number
                                THEN [appointments[i] EXCEPT !.status = "completed"]
                                ELSE appointments[i]]
        /\ Settle(c, call[c].name,
                  IF fail THEN catchError("connection error")
                  ELSE Listed([i \in DOMAIN rows |->
                                   [id |-> rows[i].id, date |-> rows[i].appointment_date,
                                    time |-> rows[i].appointment_time,
                                    status |-> rows[i].status]]))

\* retrieve_appointments: the SELECT of getAppointments runs
retrieveQuery(c, fail) ==
    LET a == call[c].args
        rows == getAppointments(appointments, a.contact_number, a.status)
    IN  /\ call[c].pc = "write" /\ call[c].name = "retrieve_appointments"
        /\ UNCHANGED <<users, appointments, nextId, clock, costTracker, ncalls>>
        /\ Settle(c, call[c].name,
                  IF fail THEN catchError("connection error")
                  ELSE Listed([i \in DOMAIN rows |->
                                   [id |-> rows[i].id, date |-> rows[i].appointment_date,
                                    time |-> rows[i].appointment_time,
                                    status |-> rows[i].status]]))

\* cancel_appointment: the UPDATE of cancelAppointment runs;
\* `if (!appointment) throw new Error('Appointment not found or already cancelled')`
cancelQuery(c, fail) ==
    LET a == call[c].args
        q == cancelAppointment(appointments, a.appointment_id, a.contact_number, clock + 1)
        hit == q[1].ok /\ Len(q[1].rows) > 0
    IN  /\ call[c].pc = "write" /\ call[c].name = "cancel_appointment"
        /\ UNCHANGED <<users, nextId, costTracker, ncalls>>
        /\ IF fail
           THEN /\ Settle(c, call[c].name, catchError("connection error"))
                /\ UNCHANGED <<appointments, clock>>
           ELSE /\ appointments' = q[2]
                /\ clock' = IF hit THEN clock + 1 ELSE clock
                /\ Settle(c, call[c].name,
                          IF ~ q[1].ok THEN catchError(q[1].error)
                          ELSE IF ~ hit
                          THEN catchError("Appointment not found or already cancelled")
                          ELSE Success(<<Brief(q[1].rows[1])>>))

\* modify_appointment: the UPDATE of modifyAppointment runs;
\* `if (!appointment) throw new Error('Appointment not found')`
updateQuery(c, fail) ==
    LET a == call[c].args
        q == modifyUpdate(appointments, a.appointment_id, a.contact_number,
                          a.new_date, a.new_time, clock + 1)
        hit == q[1].ok /\ Len(q[1].rows) > 0
    IN  /\ call[c].pc = "write" /\ call[c].name = "modify_appointment"
        /\ UNCHANGED <<users, nextId, costTracker, ncalls>>
        /\ IF fail
           THEN /\ Settle(c, call[c].name, catchError("connection error"))
                /\ UNCHANGED <<appointments, clock>>
           ELSE /\ appointments' = q[2]
                /\ clock' = IF hit THEN clock + 1 ELSE clock
                /\ Settle(c, call[c].name,
                          IF ~ q[1].ok THEN catchError(q[1].error)
                          ELSE IF ~ hit THEN catchError("Appointment not found")
                          ELSE Success(<<Brief(q[1].rows[1])>>))

\* ------------------------------------------------- services/summary.ts
\* JSON.stringify(bookedAppointments) etc. are taken when the INSERT is issued
SummaryRow(contactNumber, sessionId, summary, bookedAppointments, userPreferences, costBreakdown) ==
    [contact_number |-> contactNumber, session_id |-> sessionId,
     summary |-> summary, booked_appointments |-> bookedAppointments,
     user_preferences |-> userPreferences, cost_breakdown |-> costBreakdown]

\* INSERT INTO conversation_summaries (...) VALUES ($1, ..., $6) under
\* contact_number REFERENCES users; the table has no uniqueness constraint
\* on session_id.  Returns <<outcome, conversation_summaries'>>.
saveConversationSummary(tbl, usrs, row) ==
    IF ~ \E u \in usrs : u.contact_number = row.contact_number
    THEN <<Reject("violates foreign key constraint"), tbl>>
    ELSE <<Rows(<<row>>), Append(tbl, row)>>

\* the characters of the texts whose wording matters to extractPreferences;
\* any other text of the model stands for wording without one of its keywords
Chars(s) ==
    CASE s = "hello" -> <<"h", "e", "l", "l", "o">>
      [] s = "9 AM" -> <<"9", " ", "A", "M">>
      [] s = "3pm" -> <<"3", "p", "m">>
      [] s = "ASAP" -> <<"A", "S", "A", "P">>
      [] s = "morning" -> <<"m", "o", "r", "n", "i", "n", "g">>
      [] s = "afternoon" -> <<"a", "f", "t", "e", "r", "n", "o", "o", "n">>
      [] s = "urgent" -> <<"u", "r", "g", "e", "n", "t">>
      [] s = "am" -> <<"a", "m">>
      [] s = "pm" -> <<"p", "m">>
      [] s = "asap" -> <<"a", "s", "a", "p">>
      [] OTHER -> <<"#">>

\* String.prototype.toLowerCase over the letters of the modelled texts
toLowerCase(text) ==
    [i \in DOMAIN text |->
        CASE text[i] = "A" -> "a" [] text[i] = "M" -> "m" [] text[i] = "P" -> "p"
          [] text[i] = "S" -> "s" [] OTHER -> text[i]]

\* Array.prototype.join(' ')
RECURSIVE join(_)
join(texts) ==
    IF texts = <<>> THEN <<>>
    ELSE IF Len(texts) = 1 THEN texts[1]
    ELSE texts[1] \o <<" ">> \o join(Tail(texts))

\* String.prototype.includes
includes(text, word) ==
    \E i \in 1 .. (Len(text) - Len(word) + 1) : SubSeq(text, i, i + Len(word) - 1) = word

\* the tags of a text: the second `if` overwrites time_preference
Preferences(text) ==
    [time_preference |->
        IF includes(text, Chars("afternoon")) \/ includes(text, Chars("pm"))
        THEN "afternoon"
        ELSE IF includes(text, Chars("morning")) \/ includes(text, Chars("am"))
        THEN "morning" ELSE NULL,
     priority |->
        IF includes(text, Chars("urgent")) \/ includes(text, Chars("asap"))
        THEN "urgent" ELSE NULL]

\* mutant of extractPreferences: the turns of every role are read
extractPreferencesAllTurns(messages) ==
    Preferences(toLowerCase(join([i \in DOMAIN messages |-> Chars(messages[i].content)])))

\* messages.filter(m => m.role === 'user').map(m => m.content).join(' ')
\*   .toLowerCase(), then the keyword tests
extractPreferences(messages) ==
    LET userMessages == SelectRows(messages,
                            {i \in DOMAIN messages : messages[i].role = "user"}, 1)
    IN  Preferences(toLowerCase(join([i \in DOMAIN userMessages |->
                                        Chars(userMessages[i].content)])))

\* content.length / 4, one token for every message that has content
Tokens(messages) ==
    Cardinality({i \in DOMAIN messages : Truthy(messages[i].content)})

\* (tokens / 1000) * 0.01 and (tokens / 1000) * 0.03, in units of $0.00001
InputCost(tokens) == tokens
OutputCost(tokens) == 3 * tokens

\* mutant of Booked: the finalizer lists the bookings that are still confirmed
BookedStillConfirmed(owner) ==
    LET list == IF owner = "agent" THEN state.bookedAppointments
                ELSE session.bookedAppointments
    IN  SelectRows(list,
                   {i \in DOMAIN list :
                       \E j \in DOMAIN appointments :
                           /\ appointments[j].id = list[i].id
                           /\ appointments[j].status = "confirmed"}, 1)

\* the holder of the bookedAppointments array a finalizer was handed
Booked(owner) ==
    IF owner = "agent" THEN state.bookedAppointments ELSE session.bookedAppointments

\* prompt.length / 4: one token for the fixed instructions, one per line of
\* the conversation text (system messages left out), one per booking
PromptTokens(messages, bookedAppointments) ==
    1 + Cardinality({i \in DOMAIN messages : messages[i].role # "system"})
      + Len(bookedAppointments)

\* generateSummary up to its first await: extractPreferences reads the
\* messages, the prompt is built from the messages and the bookings, addCost('openai_summary') is recorded and the
\* summarization request is sent.  bookedAppointments is held by reference
\* (owner).  Returns <<the invocation, costTracker'>>.
generateSummary(tracker, owner, messages, contactNumber, sessionId) ==
    << [pc |-> "llm", owner |-> owner, contactNumber |-> contactNumber,
        sessionId |-> sessionId, messages |-> messages,
        userPreferences |-> extractPreferences(messages),
        row |-> <<>>, result |-> NULL],
       addCost(tracker, "openai_summary",
               InputCost(PromptTokens(messages, Booked(owner))), "1k_tokens") >>

\* mutant of generateSummaryCatch: the error leaves generateSummary
generateSummaryRethrows == "throw"

\* catch (error) { return 'Summary generation failed. Conversation details saved.' }
generateSummaryCatch == "Summary generation failed. Conversation details saved."

\* { total: getTotalCost(), breakdown: costTracker.map(...) }
CostSnapshot(tracker) == [total |-> getTotalCost(tracker), breakdown |-> tracker]

\* the summarization collaborator answers invocation i (or fails: the catch
\* returns the fallback text and nothing is persisted); on an answer
\* addCost('openai_summary_output'), the cost snapshot is taken and the INSERT
\* of saveConversationSummary is issued
summaryResponds(i, fail, content, tokens) ==
    LET t == summarizing[i]
        tracker == addCost(costTracker, "openai_summary_output", OutputCost(tokens),
                           "1k_tokens")
        summary == IF Truthy(content) THEN content ELSE "No summary generated."
    IN  /\ t.pc = "llm"
        /\ IF fail
           THEN /\ summarizing' = [summarizing EXCEPT ![i] =
                        [t EXCEPT !.pc = "done", !.result = generateSummaryCatch]]
                /\ UNCHANGED costTracker
           ELSE /\ costTracker' = tracker
                /\ summarizing' = [summarizing EXCEPT ![i] =
                        [t EXCEPT !.pc = "save",
                                  !.result = summary,
                                  !.row = <<SummaryRow(t.contactNumber, t.sessionId, summary,
                                                       Booked(t.owner), t.userPreferences,
                                                       CostSnapshot(tracker))>>]]
        /\ UNCHANGED <<httpVars, users, appointments, nextId, clock, call, ret, ncalls,
                       conversation_summaries, state, turn, nturns, session, exec>>

\* the INSERT of saveConversationSummary runs and generateSummary settles
summarySaved(i, fail) ==
    LET t == summarizing[i]
        q == saveConversationSummary(conversation_summaries, users, t.row[1])
    IN  /\ t.pc = "save"
        /\ conversation_summaries' = IF fail THEN conversation_summaries ELSE q[2]
        /\ summarizing' = [summarizing EXCEPT ![i] =
                [t EXCEPT !.pc = "done", !.row = <<>>,
                          !.result = IF ~ fail /\ q[1].ok THEN t.result
                                     ELSE generateSummaryCatch]]
        /\ UNCHANGED <<httpVars, users, appointments, nextId, clock, costTracker, call, ret, ncalls,
                       state, turn, nturns, session, exec>>

\* --------------------------------------------------------- agent/agent.ts
\* the callers of executeTool: the AppointmentAgent and the LiveKit room.  An
\* invocation of processUserMessage calls executeTool under its own name, and
\* AgentCaller is the invocation of a caller that awaits every reply.
AgentCaller == "s1"
RoomCaller == "s2"

Message(role, content) == [role |-> role, content |-> content]

\* new AppointmentAgent(sessionId): the state with the system message pushed
AppointmentAgent(sessionId) ==
    [contactNumber |-> NULL, sessionId |-> sessionId,
     messages |-> <<Message("system", "instructions")>>,
     toolCalls |-> <<>>, bookedAppointments |-> <<>>, conversationEnded |-> FALSE]

\* mutant of ToolExecution: the record is pushed without its result
ToolExecutionBare(name, arguments, result) ==
    [name |-> name, arguments |-> arguments, result |-> NoResult]

\* a ToolCall with its result
ToolExecution(name, arguments, result) ==
    [name |-> name, arguments |-> arguments, result |-> result]

\* processUserMessage has returned `reply` (NULL: not called yet)
Returned(reply) ==
    [pc |-> "idle", tool_calls |-> <<>>, assistantResponse |-> "", reply |-> reply]

\* a chat completion: message.content, message.tool_calls and
\* usage.completion_tokens (one token for the content, one per tool call)
Completion(content, tool_calls) ==
    [content |-> content, tool_calls |-> tool_calls,
     tokens |-> (IF Truthy(content) THEN 1 ELSE 0) + Len(tool_calls)]

\* invocation p of processUserMessage(transcript), up to its first await.
\* The method takes no lock: whether a second invocation starts while one is
\* suspended is up to the caller (the specifications below).
processUserMessage(p, transcript) ==
    /\ turn[p].pc = "idle"
    /\ nturns' = nturns + 1
    /\ IF state.conversationEnded
       THEN /\ turn' = [turn EXCEPT ![p] = Returned("The conversation has ended. Thank you!")]
            /\ UNCHANGED <<state, costTracker>>
       ELSE /\ state' = [state EXCEPT !.messages = Append(@, Message("user", transcript))]
            /\ costTracker' = addCost(costTracker, "openai_chat",
                                      InputCost(Tokens(state'.messages)), "1k_tokens")
            /\ turn' = [turn EXCEPT ![p] =
                            [pc |-> "chat", tool_calls |-> <<>>, assistantResponse |-> "",
                             reply |-> NULL]]
    /\ UNCHANGED <<httpVars, users, appointments, nextId, clock, call, ret, ncalls,
                   conversation_summaries, summarizing, session, exec>>

\* toolCall.function.arguments that is no JSON text
Malformed == [malformed |-> TRUE]

\* JSON.parse(toolCall.function.arguments || '{}') returns the argument bag;
\* on text that is no JSON it throws, inside the try of processUserMessage
Parses(arguments) == arguments # Malformed

\* mutant of toolLoop: the loop is left without the assistant response pushed
toolLoopSilent(p, tracker, queue, assistantResponse) ==
    IF queue = <<>>
    THEN /\ turn' = [turn EXCEPT ![p] = Returned(assistantResponse)]
         /\ costTracker' = tracker
         /\ UNCHANGED <<users, appointments, nextId, clock, call, ret, ncalls, state>>
    ELSE /\ executeToolFrom(tracker, p, Head(queue).name, Head(queue).arguments)
         /\ turn' = [turn EXCEPT ![p] =
                         [pc |-> "await", tool_calls |-> queue,
                          assistantResponse |-> assistantResponse, reply |-> NULL]]
         /\ UNCHANGED state

\* the head of the `for (const toolCall of message.tool_calls)` loop with the
\* calls in `queue` left to run: executeTool is entered for the first of them,
\* or, none left, the assistant response is pushed and returned
toolLoop(p, tracker, queue, assistantResponse) ==
    IF queue = <<>>
    THEN /\ state' = [state EXCEPT
                        !.messages = Append(@, Message("assistant", assistantResponse))]
         /\ turn' = [turn EXCEPT ![p] = Returned(assistantResponse)]
         /\ costTracker' = tracker
         /\ UNCHANGED <<users, appointments, nextId, clock, call, ret, ncalls>>
    ELSE IF ~ Parses(Head(queue).arguments)
    THEN /\ turn' = [turn EXCEPT ![p] =
                         Returned("I apologize, but I encountered an error. Please try again.")]
         /\ costTracker' = tracker
         /\ UNCHANGED <<users, appointments, nextId, clock, call, ret, ncalls, state>>
    ELSE /\ executeToolFrom(tracker, p, Head(queue).name, Head(queue).arguments)
         /\ turn' = [turn EXCEPT ![p] =
                         [pc |-> "await", tool_calls |-> queue,
                          assistantResponse |-> assistantResponse, reply |-> NULL]]
         /\ UNCHANGED state

\* mutant of processError: the catch closes the conversation
processErrorEnds(p) ==
    /\ turn' = [turn EXCEPT ![p] =
                    Returned("I apologize, but I encountered an error. Please try again.")]
    /\ state' = [state EXCEPT !.conversationEnded = TRUE]
    /\ UNCHANGED <<users, appointments, nextId, clock, costTracker, call, ret, ncalls>>

\* the catch of processUserMessage
processError(p) ==
    /\ turn' = [turn EXCEPT ![p] =
                    Returned("I apologize, but I encountered an error. Please try again.")]
    /\ UNCHANGED <<users, appointments, nextId, clock, costTracker, call, ret, ncalls, state>>

\* the first completion arrives (or the request fails, or it carries no
\* choice): addCost('openai_chat_output'), then the tool loop
chatResponds(p, fail, choice, response) ==
    /\ turn[p].pc = "chat"
    /\ IF fail THEN processError(p)
       ELSE IF ~ choice
       THEN /\ turn' = [turn EXCEPT ![p] =
                            Returned("I apologize, but I could not generate a response.")]
            /\ costTracker' = addCost(costTracker, "openai_chat_output", OutputCost(0),
                                      "1k_tokens")
            /\ UNCHANGED <<users, appointments, nextId, clock, call, ret, ncalls, state>>
       ELSE toolLoop(p, addCost(costTracker, "openai_chat_output",
                                OutputCost(response.tokens), "1k_tokens"),
                     response.tool_calls,
                     IF Truthy(response.content) THEN response.content ELSE "")
    /\ UNCHANGED <<httpVars, conversation_summaries, summarizing, nturns, session, exec>>

\* summaryMessages of generateAndEmitSummary: the filter keeps the four
\* roles, and a content that is not a string (the null content of a
\* tool-call turn) becomes JSON.stringify('')
summaryMessages(messages) ==
    [i \in DOMAIN messages |->
        Message(messages[i].role,
                IF messages[i].content = NULL THEN "\"\"" ELSE messages[i].content)]

\* executeTool has settled: the loop body from `this.state.toolCalls.push` to
\* the follow-up request.  end_conversation sets conversationEnded and calls
\* generateAndEmitSummary without awaiting it.
toolReturns(p) ==
    LET tc == Head(turn[p].tool_calls)
        result == ret[p]
        pushed == [state EXCEPT
                     !.toolCalls = Append(@, ToolExecution(tc.name, tc.arguments, result))]
        folded ==
            CASE tc.name = "identify_user" /\ result.success ->
                    [pushed EXCEPT !.contactNumber = tc.arguments.contact_number]
              [] tc.name = "book_appointment" /\ result.success ->
                    [pushed EXCEPT !.bookedAppointments = Append(@, result.data[1])]
              [] tc.name = "end_conversation" ->
                    [pushed EXCEPT !.conversationEnded = TRUE]
              [] OTHER -> pushed
        messages == folded.messages \o
                        << Message("assistant", NULL),
                           Message("tool", IF result.success THEN "ok" ELSE result.error) >>
        summary == generateSummary(costTracker, "agent", summaryMessages(state.messages),
                                   state.contactNumber, state.sessionId)
        finalizes == tc.name = "end_conversation" /\ Truthy(state.contactNumber)
    IN  /\ turn[p].pc = "await" /\ call[p].pc = "idle"
        /\ state' = [folded EXCEPT !.messages = messages]
        /\ turn' = [turn EXCEPT ![p].pc = "followUp"]
        /\ summarizing' = IF finalizes THEN Append(summarizing, summary[1])
                          ELSE summarizing
        /\ costTracker' = addCost(IF finalizes THEN summary[2] ELSE costTracker,
                                  "openai_chat", InputCost(Tokens(messages)), "1k_tokens")
        /\ UNCHANGED <<httpVars, users, appointments, nextId, clock, call, ret, ncalls,
                       conversation_summaries, nturns, session, exec>>

\* the follow-up completion arrives (or fails): addCost('openai_chat_output'),
\* `assistantResponse = content || assistantResponse`, next iteration
followUpResponds(p, fail, content, tokens) ==
    /\ turn[p].pc = "followUp"
    /\ IF fail THEN processError(p)
       ELSE toolLoop(p, addCost(costTracker, "openai_chat_output", OutputCost(tokens),
                                "1k_tokens"),
                     Tail(turn[p].tool_calls),
                     IF Truthy(content) THEN content ELSE turn[p].assistantResponse)
    /\ UNCHANGED <<httpVars, conversation_summaries, summarizing, nturns, session, exec>>

\* ------------------------------------- agent/livekit-agent.ts (part_001)
\* getOrCreateSession(roomName) on a room without a session
getOrCreateSession(sessionId) ==
    [sessionId |-> sessionId, contactNumber |-> NULL, bookedAppointments |-> <<>>,
     conversationHistory |-> <<>>, toolCalls |-> <<>>]

ExecIdle == [pc |-> "idle", name |-> NULL, arguments |-> NoArgs, summary |-> 0]

\* UserInputTranscribed with a final transcript
userInputTranscribed(transcript) ==
    /\ nturns' = nturns + 1
    /\ session' = [session EXCEPT
                      !.conversationHistory = Append(@, Message("user", transcript))]
    /\ UNCHANGED <<httpVars, users, appointments, nextId, clock, costTracker, call, ret, ncalls,
                   conversation_summaries, summarizing, state, turn, exec>>

\* the `execute` callback of a tool of the LiveKit tool context, up to its
\* first await: executeTool is entered.  No flag of the session is consulted.
execute(toolName, args) ==
    /\ exec.pc = "idle"
    /\ executeTool(RoomCaller, toolName, args)
    /\ exec' = [pc |-> "await", name |-> toolName, arguments |-> args, summary |-> 0]
    /\ UNCHANGED <<httpVars, conversation_summaries, summarizing, state, turn, nturns, session>>

\* executeTool has settled: toolCalls.push, the fold of the result into the
\* session, and on end_conversation with a contact number generateSummary is
\* called and awaited; otherwise the result is published and returned
executeReturns ==
    LET result == ret[RoomCaller]
        pushed == [session EXCEPT
                     !.toolCalls = Append(@, ToolExecution(exec.name, exec.arguments, result))]
        summary == generateSummary(costTracker, "room", session.conversationHistory,
                                   session.contactNumber, session.sessionId)
        finalizes == exec.name = "end_conversation" /\ Truthy(session.contactNumber)
    IN  /\ exec.pc = "await" /\ call[RoomCaller].pc = "idle"
        /\ session' =
              CASE exec.name = "identify_user" /\ result.success ->
                      [pushed EXCEPT !.contactNumber = exec.arguments.contact_number]
                [] exec.name = "book_appointment" /\ result.success ->
                      [pushed EXCEPT !.bookedAppointments = Append(@, result.data[1])]
                [] OTHER -> pushed
        /\ IF finalizes
           THEN /\ summarizing' = Append(summarizing, summary[1])
                /\ costTracker' = summary[2]
                /\ exec' = [exec EXCEPT !.pc = "summary", !.summary = Len(summarizing) + 1]
           ELSE /\ exec' = ExecIdle
                /\ UNCHANGED <<summarizing, costTracker>>
        /\ UNCHANGED <<httpVars, users, appointments, nextId, clock, call, ret, ncalls,
                       conversation_summaries, state, turn, nturns>>

\* the awaited generateSummary has settled: the summary and the tool call are
\* published to the room and `execute` returns
summaryPublished ==
    /\ exec.pc = "summary" /\ summarizing[exec.summary].pc = "done"
    /\ exec' = ExecIdle
    /\ UNCHANGED <<httpVars, users, appointments, nextId, clock, costTracker, call, ret, ncalls,
                   conversation_summaries, summarizing, state, turn, nturns, session>>

\* `entry` of the job of another room in the same process:
\* getOrCreateSession(ctx.room.name) adds a fresh session to `sessions`, and
\* the tools created for it write to that session.  Nothing else is reset.
entry(sessionId) ==
    /\ session' = getOrCreateSession(sessionId)
    /\ UNCHANGED <<httpVars, users, appointments, nextId, clock, costTracker, call, ret, ncalls,
                   conversation_summaries, summarizing, state, turn, nturns, exec>>

\* --------------------------------------- POST /api/token (agent.ts 365-434)
\* a handler that is not running; status is the response it sent last
TokenIdle == [pc |-> "idle", roomName |-> NULL, status |-> 0]

\* handler q up to its first await: 400 when roomName or participantName is
\* missing, otherwise roomService.createRoom is requested
postToken(q, roomName, participantName) ==
    /\ token[q].pc = "idle"
    /\ nposts' = nposts + 1
    /\ token' = [token EXCEPT ![q] =
                    IF ~ Truthy(roomName) \/ ~ Truthy(participantName)
                    THEN [pc |-> "idle", roomName |-> roomName, status |-> 400]
                    ELSE [pc |-> "createRoom", roomName |-> roomName, status |-> 0]]
    /\ UNCHANGED <<dispatchedRooms, timers, dispatchLog>>

\* createRoom has settled (a rejection is logged and swallowed), and
\* `if (!dispatchedRooms.has(roomName))` is evaluated: createDispatch is
\* requested, or the handler goes on to the access token
createRoomSettles(q) ==
    /\ token[q].pc = "createRoom"
    /\ token' = [token EXCEPT ![q].pc =
                    IF token[q].roomName \in dispatchedRooms THEN "toJwt"
                    ELSE "createDispatch"]
    /\ UNCHANGED <<dispatchedRooms, nposts, timers, dispatchLog>>

\* createDispatch has settled: on success the room is added to
\* dispatchedRooms and the clean-up timer is set; a rejection is logged and
\* swallowed
createDispatchSettles(q, fail) ==
    /\ token[q].pc = "createDispatch"
    /\ token' = [token EXCEPT ![q].pc = "toJwt"]
    /\ UNCHANGED nposts
    /\ IF fail
       THEN UNCHANGED <<dispatchedRooms, timers, dispatchLog>>
       ELSE /\ dispatchedRooms' = dispatchedRooms \cup {token[q].roomName}
            /\ timers' = Append(timers, token[q].roomName)
            /\ dispatchLog' = Append(dispatchLog,
                                     [event |-> "createDispatch",
                                      room |-> token[q].roomName])

\* token.toJwt() has settled: the token is sent, or the outer catch answers 500
toJwtSettles(q, fail) ==
    /\ token[q].pc = "toJwt"
    /\ token' = [token EXCEPT ![q].pc = "idle", ![q].status = IF fail THEN 500 ELSE 200]
    /\ UNCHANGED <<dispatchedRooms, nposts, timers, dispatchLog>>

\* setTimeout(() => dispatchedRooms.delete(roomName), 10 * 60 * 1000): the
\* timers have one delay, so they fire in the order they were set
timerFires ==
    /\ timers # <<>>
    /\ dispatchedRooms' = dispatchedRooms \ {Head(timers)}
    /\ timers' = Tail(timers)
    /\ dispatchLog' = Append(dispatchLog, [event |-> "delete", room |-> Head(timers)])
    /\ UNCHANGED <<token, nposts>>

\* ------------------------------------------------------- specifications
Opt(S) == S \cup {NULL}

InitStore(registered) ==
    /\ users = {UserRow(c, NULL, NULL, 0) : c \in registered}
    /\ appointments = <<>>
    /\ nextId = 1
    /\ clock = 0
    /\ costTracker = <<>>
    /\ call = [c \in Clients |-> Idle]
    /\ ret = [c \in Clients |-> NoResult]
    /\ ncalls = 0
    /\ conversation_summaries = <<>>
    /\ summarizing = <<>>
    /\ state = AppointmentAgent("session-1")
    /\ turn = [p \in Clients |-> Returned(NULL)]
    /\ nturns = 0
    /\ session = getOrCreateSession("uuid-1")
    /\ exec = ExecIdle
    /\ dispatchedRooms = {}
    /\ token = [q \in Requests |-> TokenIdle]
    /\ nposts = 0
    /\ timers = <<>>
    /\ dispatchLog = <<>>

\* the appointment ids a caller may name: every id handed out, and one that
\* was never handed out
Ids == 1 .. nextId

BookArgs(c, d, t) == Args(c, d, t, 0, NULL, NULL, NULL, NULL, NULL, NULL)
CancelArgs(c, id) == Args(c, NULL, NULL, id, NULL, NULL, NULL, NULL, NULL, NULL)
ModifyArgs(c, id, nd, nt) == Args(c, NULL, NULL, id, nd, nt, NULL, NULL, NULL, NULL)

\* Spec: concurrent callers book, modify and cancel; the contacts were
\* identified earlier (c2 possibly not)
Init ==
    \E registered \in {{"c1"}, {"c1", "c2"}} : InitStore(registered)

Next ==
    \/ /\ ncalls < MaxCalls
       /\ \E c \in Clients, k \in Contacts, d \in Dates, t \in Times :
             executeTool(c, "book_appointment", BookArgs(k, d, t))
       /\ UNCHANGED sessVars
    \/ /\ ncalls < MaxCalls
       /\ \E c \in Clients, k \in Contacts, id \in Ids :
             executeTool(c, "cancel_appointment", CancelArgs(k, id))
       /\ UNCHANGED sessVars
    \/ /\ ncalls < MaxCalls
       /\ \E c \in Clients, k \in Contacts, id \in Ids, nd \in Opt(Dates), nt \in Opt(Times) :
             executeTool(c, "modify_appointment", ModifyArgs(k, id, nd, nt))
       /\ UNCHANGED sessVars
    \/ /\ \E c \in Clients, fail \in BOOLEAN : conflictCheck(c, fail)
       /\ UNCHANGED sessVars
    \/ /\ \E c \in Clients, fail \in BOOLEAN : insertQuery(c, fail)
       /\ UNCHANGED sessVars
    \/ /\ \E c \in Clients, fail \in BOOLEAN : cancelQuery(c, fail)
       /\ UNCHANGED sessVars
    \/ /\ \E c \in Clients, fail \in BOOLEAN : updateQuery(c, fail)
       /\ UNCHANGED sessVars

Spec == Init /\ [][Next]_vars

\* SpecDispatch: every tool of the catalog and an unknown name, with
\* arguments present or missing, against a store in which c1 may or may not
\* be a user yet
AllNames == ToolNames \cup {"unknown_tool"}

DispatchBags(name) ==
    CASE name = "identify_user" ->
            {Args(k, NULL, NULL, 0, NULL, NULL, n, NULL, NULL, NULL) :
                k \in Opt({"c1"}), n \in Opt({"n1"})}
      [] name = "fetch_slots" ->
            {Args(NULL, NULL, NULL, 0, NULL, NULL, NULL, NULL, NULL, d) :
                d \in Opt({"2024-01-15"})}
      [] name = "book_appointment" ->
            {BookArgs(k, d, t) :
                k \in Opt({"c1"}), d \in Opt({"2024-01-15"}), t \in Opt({"09:00"})}
      [] name = "retrieve_appointments" ->
            {Args(k, NULL, NULL, 0, NULL, NULL, NULL, NULL, st, NULL) :
                k \in Opt({"c1"}), st \in Opt({"confirmed"})}
      [] name = "cancel_appointment" ->
            {CancelArgs(k, id) : k \in Opt({"c1"}), id \in 0 .. 1}
      [] name = "modify_appointment" ->
            {ModifyArgs(k, id, nd, nt) :
                k \in Opt({"c1"}), id \in 0 .. 1,
                nd \in Opt({"2024-01-16"}), nt \in Opt({"09:00"})}
      [] OTHER -> {NoArgs}

InitDispatch ==
    \E registered \in {{}, {"c1"}} : InitStore(registered)

NextDispatch ==
    \/ /\ ncalls < MaxDispatch
       /\ \E c \in Clients, name \in AllNames :
             \E args \in DispatchBags(name) : executeTool(c, name, args)
       /\ UNCHANGED sessVars
    \/ /\ \E c \in Clients, fail \in BOOLEAN : conflictCheck(c, fail)
       /\ UNCHANGED sessVars
    \/ /\ \E c \in Clients, fail \in BOOLEAN : identifyQuery(c, fail)
       /\ UNCHANGED sessVars
    \/ /\ \E c \in Clients, fail \in BOOLEAN : insertQuery(c, fail)
       /\ UNCHANGED sessVars
    \/ /\ \E c \in Clients, fail \in BOOLEAN : retrieveQuery(c, fail)
       /\ UNCHANGED sessVars
    \/ /\ \E c \in Clients, fail \in BOOLEAN : cancelQuery(c, fail)
       /\ UNCHANGED sessVars
    \/ /\ \E c \in Clients, fail \in BOOLEAN : updateQuery(c, fail)
       /\ UNCHANGED sessVars

SpecDispatch == InitDispatch /\ [][NextDispatch]_vars

\* SpecCatalog: one caller books, cancels and modifies for either contact (c2
\* possibly not a user) and reads with retrieve_appointments, fetch_slots and
\* end_conversation in between
Statuses == {"confirmed", "cancelled", "completed"}

\* the dates fetch_slots is asked for: the catalog's dates and one that is
\* not in the catalog
FetchDates == Opt(Dates \cup {"2024-01-18"})

RetrieveArgs(k, st) == Args(k, NULL, NULL, 0, NULL, NULL, NULL, NULL, st, NULL)
FetchArgs(d) == Args(NULL, NULL, NULL, 0, NULL, NULL, NULL, NULL, NULL, d)

NextCatalog ==
    \/ /\ ncalls < MaxOps
       /\ \E k \in Contacts, d \in Dates, t \in Times :
             executeTool(AgentCaller, "book_appointment", BookArgs(k, d, t))
       /\ UNCHANGED sessVars
    \/ /\ ncalls < MaxOps
       /\ \E k \in Contacts, id \in Ids :
             executeTool(AgentCaller, "cancel_appointment", CancelArgs(k, id))
       /\ UNCHANGED sessVars
    \/ /\ ncalls < MaxOps
       /\ \E k \in Contacts, id \in Ids, nd \in Dates :
             executeTool(AgentCaller, "modify_appointment", ModifyArgs(k, id, nd, NULL))
       /\ UNCHANGED sessVars
    \/ /\ ncalls < MaxOps
       /\ \E k \in Contacts, st \in Opt(Statuses) :
             executeTool(AgentCaller, "retrieve_appointments", RetrieveArgs(k, st))
       /\ UNCHANGED sessVars
    \/ /\ ncalls < MaxOps
       /\ \E d \in FetchDates :
             executeTool(AgentCaller, "fetch_slots", FetchArgs(d))
       /\ UNCHANGED sessVars
    \/ /\ ncalls < MaxOps
       /\ executeTool(AgentCaller, "end_conversation", NoArgs)
       /\ UNCHANGED sessVars
    \/ /\ \E fail \in BOOLEAN : conflictCheck(AgentCaller, fail)
       /\ UNCHANGED sessVars
    \/ /\ \E fail \in BOOLEAN : insertQuery(AgentCaller, fail)
       /\ UNCHANGED sessVars
    \/ /\ \E fail \in BOOLEAN : retrieveQuery(AgentCaller, fail)
       /\ UNCHANGED sessVars
    \/ /\ \E fail \in BOOLEAN : cancelQuery(AgentCaller, fail)
       /\ UNCHANGED sessVars
    \/ /\ \E fail \in BOOLEAN : updateQuery(AgentCaller, fail)
       /\ UNCHANGED sessVars

SpecCatalog == Init /\ [][NextCatalog]_vars

\* SpecUsers: identify_user only, from an empty users table
IdentifyArgs(k, n, e) == Args(k, NULL, NULL, 0, NULL, NULL, n, e, NULL, NULL)

NextUsers ==
    \/ /\ ncalls < MaxIdentify
       /\ \E c \in Clients, k \in Opt(Contacts), n \in Opt(Names \cup {""}),
             e \in Opt(Emails \cup {""}) :
             executeTool(c, "identify_user", IdentifyArgs(k, n, e))
       /\ UNCHANGED sessVars
    \/ /\ \E c \in Clients, fail \in BOOLEAN : identifyQuery(c, fail)
       /\ UNCHANGED sessVars

SpecUsers == InitStore({}) /\ [][NextUsers]_vars

\* SpecAgent: one AppointmentAgent takes utterances, the next one after the
\* reply to the one before; the model answers each with any list of at most
\* MaxToolCalls tool calls from AgentToolCalls
AgentToolCalls ==
    { [name |-> "identify_user", arguments |-> IdentifyArgs("c1", "n1", NULL)],
      [name |-> "identify_user", arguments |-> IdentifyArgs(NULL, "n1", NULL)],
      [name |-> "book_appointment", arguments |-> BookArgs("c1", "2024-01-15", "09:00")],
      [name |-> "end_conversation", arguments |-> NoArgs] }

ToolCallLists == UNION {[1 .. n -> AgentToolCalls] : n \in 0 .. MaxToolCalls}

NextAgent ==
    \/ /\ nturns < MaxTurns
       /\ processUserMessage(AgentCaller, "hello")
    \/ \E fail, choice \in BOOLEAN, tool_calls \in ToolCallLists :
          chatResponds(AgentCaller, fail, choice,
                       Completion(IF tool_calls = <<>> THEN "sure" ELSE NULL, tool_calls))
    \/ /\ toolReturns(AgentCaller)
    \/ \E fail \in BOOLEAN, content \in {NULL, "done"} :
          followUpResponds(AgentCaller, fail, content, IF Truthy(content) THEN 1 ELSE 0)
    \/ /\ \E fail \in BOOLEAN : conflictCheck(AgentCaller, fail)
       /\ UNCHANGED sessVars
    \/ /\ \E fail \in BOOLEAN : identifyQuery(AgentCaller, fail)
       /\ UNCHANGED sessVars
    \/ /\ \E fail \in BOOLEAN : insertQuery(AgentCaller, fail)
       /\ UNCHANGED sessVars
    \/ \E i \in DOMAIN summarizing, fail \in BOOLEAN :
          summaryResponds(i, fail, "digest", 1)
    \/ \E i \in DOMAIN summarizing, fail \in BOOLEAN : summarySaved(i, fail)

SpecAgent == InitStore({}) /\ [][NextAgent]_vars

\* SpecFaults: the model collaborator fails, answers without a message, or
\* asks for tool calls, some of them with arguments that are no JSON
FaultToolCalls ==
    { [name |-> "identify_user", arguments |-> IdentifyArgs("c1", "n1", NULL)],
      [name |-> "book_appointment", arguments |-> BookArgs("c1", "2024-01-15", "09:00")],
      [name |-> "book_appointment", arguments |-> Malformed],
      [name |-> "end_conversation", arguments |-> NoArgs] }

NextFaults ==
    \/ /\ nturns < MaxTurns
       /\ processUserMessage(AgentCaller, "hello")
    \/ /\ turn[AgentCaller].pc = "chat"
       /\ \E fail, choice \in BOOLEAN, n \in 0 .. MaxToolCalls :
             \E tool_calls \in [1 .. n -> FaultToolCalls] :
                 chatResponds(AgentCaller, fail, choice,
                              Completion(IF tool_calls = <<>> THEN "sure" ELSE NULL,
                                         tool_calls))
    \/ /\ toolReturns(AgentCaller)
    \/ \E fail \in BOOLEAN, content \in {NULL, "done"} :
          followUpResponds(AgentCaller, fail, content, IF Truthy(content) THEN 1 ELSE 0)
    \/ /\ conflictCheck(AgentCaller, FALSE)
       /\ UNCHANGED sessVars
    \/ /\ identifyQuery(AgentCaller, FALSE)
       /\ UNCHANGED sessVars
    \/ /\ \E fail \in BOOLEAN : insertQuery(AgentCaller, fail)
       /\ UNCHANGED sessVars
    \/ \E i \in DOMAIN summarizing : summaryResponds(i, FALSE, "digest", 1)
    \/ \E i \in DOMAIN summarizing : summarySaved(i, FALSE)

SpecFaults == InitStore({}) /\ [][NextFaults]_vars

\* SpecSnapshot: one AppointmentAgent serves contact c1, who is a user
\* already; the model answers an utterance with up to MaxSnapshotCalls
\* different tool calls that identify, book, cancel or move the booking, list
\* slots or appointments, and end the conversation
SnapshotToolCalls ==
    { [name |-> "identify_user", arguments |-> IdentifyArgs("c1", NULL, NULL)],
      [name |-> "book_appointment", arguments |-> BookArgs("c1", "2024-01-15", "09:00")],
      [name |-> "cancel_appointment", arguments |-> CancelArgs("c1", 1)],
      [name |-> "modify_appointment",
       arguments |-> ModifyArgs("c1", 1, "2024-01-16", NULL)],
      [name |-> "fetch_slots", arguments |-> FetchArgs("2024-01-15")],
      [name |-> "retrieve_appointments", arguments |-> RetrieveArgs("c1", NULL)],
      [name |-> "end_conversation", arguments |-> NoArgs] }

NextSnapshot ==
    \/ /\ nturns < MaxSnapshotTurns
       /\ processUserMessage(AgentCaller, "hello")
    \/ /\ turn[AgentCaller].pc = "chat"
       /\ \E n \in 1 .. MaxSnapshotCalls :
             \E tool_calls \in [1 .. n -> SnapshotToolCalls] :
                 /\ \A i, j \in 1 .. n : tool_calls[i] = tool_calls[j] => i = j
                 /\ chatResponds(AgentCaller, FALSE, TRUE, Completion(NULL, tool_calls))
    \/ /\ toolReturns(AgentCaller)
    \/ followUpResponds(AgentCaller, FALSE, "done", 1)
    \/ /\ conflictCheck(AgentCaller, FALSE)
       /\ UNCHANGED sessVars
    \/ /\ identifyQuery(AgentCaller, FALSE)
       /\ UNCHANGED sessVars
    \/ /\ insertQuery(AgentCaller, FALSE)
       /\ UNCHANGED sessVars
    \/ /\ cancelQuery(AgentCaller, FALSE)
       /\ UNCHANGED sessVars
    \/ /\ updateQuery(AgentCaller, FALSE)
       /\ UNCHANGED sessVars
    \/ /\ retrieveQuery(AgentCaller, FALSE)
       /\ UNCHANGED sessVars
    \/ \E i \in DOMAIN summarizing, fail \in BOOLEAN :
          summaryResponds(i, fail, "digest", 1)
    \/ \E i \in DOMAIN summarizing, fail \in BOOLEAN : summarySaved(i, fail)

SpecSnapshot == InitStore({"c1"}) /\ [][NextSnapshot]_vars

\* SpecPreferences: the user's utterances and the model's replies are worded
\* with and without the vocabulary of extractPreferences; the contact is
\* identified in one turn and the conversation ended in a later one
UserTexts == {"hello", "9 AM", "3pm", "ASAP", "morning", "afternoon", "urgent"}
AssistantTexts == {"done", "3pm", "urgent"}

NextPreferences ==
    \/ /\ nturns < MaxTurns
       /\ \E text \in UserTexts : processUserMessage(AgentCaller, text)
    \/ \E tc \in {t \in AgentToolCalls : t.name # "book_appointment"} :
          chatResponds(AgentCaller, FALSE, TRUE, Completion(NULL, <<tc>>))
    \/ /\ toolReturns(AgentCaller)
    \/ \E content \in AssistantTexts : followUpResponds(AgentCaller, FALSE, content, 1)
    \/ /\ identifyQuery(AgentCaller, FALSE)
       /\ UNCHANGED sessVars
    \/ \E i \in DOMAIN summarizing, fail \in BOOLEAN :
          summaryResponds(i, fail, "digest", 1)
    \/ \E i \in DOMAIN summarizing : summarySaved(i, FALSE)

SpecPreferences == InitStore({}) /\ [][NextPreferences]_vars

\* the agent's turns under a host that clears the cost ledger at will
NextLedger ==
    \/ /\ nturns < MaxTurns
       /\ processUserMessage(AgentCaller, "hello")
    \/ \E fail \in BOOLEAN, tool_calls \in {<<>>} \cup {<<tc>> : tc \in AgentToolCalls} :
          chatResponds(AgentCaller, fail, TRUE,
                       Completion(IF tool_calls = <<>> THEN "sure" ELSE NULL, tool_calls))
    \/ /\ toolReturns(AgentCaller)
    \/ followUpResponds(AgentCaller, FALSE, "done", 1)
    \/ /\ conflictCheck(AgentCaller, FALSE)
       /\ UNCHANGED sessVars
    \/ /\ identifyQuery(AgentCaller, FALSE)
       /\ UNCHANGED sessVars
    \/ /\ insertQuery(AgentCaller, FALSE)
       /\ UNCHANGED sessVars
    \/ \E i \in DOMAIN summarizing, fail \in BOOLEAN :
          summaryResponds(i, fail, "digest", 1)
    \/ \E i \in DOMAIN summarizing : summarySaved(i, FALSE)
    \/ /\ resetCost
       /\ UNCHANGED sessVars

SpecLedger == InitStore({}) /\ [][NextLedger]_vars

\* SpecConcurrent: the caller of one AppointmentAgent does not wait for a
\* reply before it hands over the next utterance, so that two invocations of
\* processUserMessage are in flight together; a response carries at most one
\* tool call
NextConcurrent ==
    \/ /\ nturns < MaxTurns
       /\ \E p \in Clients : processUserMessage(p, "hello")
    \/ \E p \in Clients, fail, choice \in BOOLEAN,
          tool_calls \in {<<>>} \cup {<<tc>> : tc \in AgentToolCalls} :
          chatResponds(p, fail, choice,
                       Completion(IF tool_calls = <<>> THEN "sure" ELSE NULL, tool_calls))
    \/ \E p \in Clients : toolReturns(p)
    \/ \E p \in Clients, fail \in BOOLEAN, content \in {NULL, "done"} :
          followUpResponds(p, fail, content, IF Truthy(content) THEN 1 ELSE 0)
    \/ /\ \E c \in Clients, fail \in BOOLEAN : conflictCheck(c, fail)
       /\ UNCHANGED sessVars
    \/ /\ \E c \in Clients, fail \in BOOLEAN : identifyQuery(c, fail)
       /\ UNCHANGED sessVars
    \/ /\ \E c \in Clients, fail \in BOOLEAN : insertQuery(c, fail)
       /\ UNCHANGED sessVars
    \/ \E i \in DOMAIN summarizing, fail \in BOOLEAN :
          summaryResponds(i, fail, "digest", 1)
    \/ \E i \in DOMAIN summarizing, fail \in BOOLEAN : summarySaved(i, fail)

SpecConcurrent == InitStore({}) /\ [][NextConcurrent]_vars

\* SpecLiveKit: the voice pipeline of one room transcribes utterances and runs
\* the tools the model asks for, one at a time
NextLiveKit ==
    \/ /\ nturns < MaxTurns
       /\ userInputTranscribed("hello")
    \/ /\ ncalls < MaxExec
       /\ \E tc \in AgentToolCalls : execute(tc.name, tc.arguments)
    \/ /\ executeReturns
    \/ /\ summaryPublished
    \/ /\ \E fail \in BOOLEAN : conflictCheck(RoomCaller, fail)
       /\ UNCHANGED sessVars
    \/ /\ \E fail \in BOOLEAN : identifyQuery(RoomCaller, fail)
       /\ UNCHANGED sessVars
    \/ /\ \E fail \in BOOLEAN : insertQuery(RoomCaller, fail)
       /\ UNCHANGED sessVars
    \/ \E i \in DOMAIN summarizing, fail \in BOOLEAN :
          summaryResponds(i, fail, "digest", 1)
    \/ \E i \in DOMAIN summarizing, fail \in BOOLEAN : summarySaved(i, fail)

SpecLiveKit == InitStore({}) /\ [][NextLiveKit]_vars

\* SpecRooms: one process serves two rooms one after the other: the second
\* room's job starts once the first room's tool calls and summaries have
\* settled
NextRooms ==
    \/ /\ session.sessionId = "uuid-1"
       /\ exec.pc = "idle"
       /\ \A i \in DOMAIN summarizing : summarizing[i].pc = "done"
       /\ entry("uuid-2")
    \/ /\ ncalls < MaxRoomExec
       /\ \E tc \in AgentToolCalls : execute(tc.name, tc.arguments)
    \/ /\ executeReturns
    \/ /\ summaryPublished
    \/ /\ \E fail \in BOOLEAN : identifyQuery(RoomCaller, fail)
       /\ UNCHANGED sessVars
    \/ /\ \E fail \in BOOLEAN : conflictCheck(RoomCaller, fail)
       /\ UNCHANGED sessVars
    \/ /\ \E fail \in BOOLEAN : insertQuery(RoomCaller, fail)
       /\ UNCHANGED sessVars
    \/ \E i \in DOMAIN summarizing, fail \in BOOLEAN :
          summaryResponds(i, fail, "digest", 1)
    \/ \E i \in DOMAIN summarizing, fail \in BOOLEAN : summarySaved(i, fail)

SpecRooms == InitStore({}) /\ [][NextRooms]_vars

\* the variables the token server does not touch
agentVars == <<users, appointments, nextId, clock, costTracker, call, ret, ncalls,
               conversation_summaries, summarizing, state, turn, nturns, session, exec>>

\* SpecToken: clients post to /api/token, up to two requests being served at
\* a time, and the clean-up timers fire
NextToken ==
    \/ /\ nposts < MaxPosts
       /\ \E q \in Requests, roomName \in Opt(Rooms), participantName \in Opt({"ann"}) :
             postToken(q, roomName, participantName)
       /\ UNCHANGED agentVars
    \/ /\ \E q \in Requests : createRoomSettles(q)
       /\ UNCHANGED agentVars
    \/ /\ \E q \in Requests, fail \in BOOLEAN : createDispatchSettles(q, fail)
       /\ UNCHANGED agentVars
    \/ /\ \E q \in Requests, fail \in BOOLEAN : toJwtSettles(q, fail)
       /\ UNCHANGED agentVars
    \/ /\ timerFires
       /\ UNCHANGED agentVars

SpecToken == InitStore({}) /\ [][NextToken]_vars

\* ----------------------------------------------------------------- claims
\* the confirmed appointments holding slot (d, t)
ConfirmedAt(d, t) ==
    {i \in DOMAIN appointments :
        /\ appointments[i].appointment_date = d
        /\ appointments[i].appointment_time = t
        /\ appointments[i].status = "confirmed"}

Registered(k) == \E u \in users : u.contact_number = k

\* the failures that report a taken slot: the pre-check of modifyAppointment
\* and the table's uniqueness constraint rejecting the write
ConflictErrors ==
    {"New appointment slot already booked",
     "duplicate key value violates unique constraint"}

\* every entry of the ledger so far is a book_appointment dispatch
OnlyBookings ==
    \A i \in DOMAIN costTracker : costTracker[i].service = "book_appointment"

\* C1: in every reachable state of the appointment store there is at most
\* one appointment with status confirmed for any (date, time) pair.
C1_AtMostOneConfirmedPerSlot ==
    \A d \in Dates, t \in Times : Cardinality(ConfirmedAt(d, t)) <= 1

\* C2: among book_appointment calls that share a (date, time), sequential or
\* interleaved, at most one returns success: while only bookings have been
\* dispatched, no two callers both hold a success envelope for the same slot.
C2_AtMostOneBookingSucceeds ==
    OnlyBookings =>
        \A c1, c2 \in Clients :
            (/\ c1 # c2
             /\ ret[c1].success /\ ret[c2].success
             /\ ret[c1].data[1].date = ret[c2].data[1].date
             /\ ret[c1].data[1].time = ret[c2].data[1].time) => FALSE

\* C3: book_appointment whose conflict SELECT runs while a confirmed
\* appointment holds the requested (date, time) returns {success: false}
\* with 'Appointment slot already booked' and leaves the table unchanged;
\* with no confirmed appointment there it goes on to the INSERT, and the
\* INSERT, run while no confirmed appointment holds the slot and the contact
\* is a known user, adds exactly one row (status confirmed, the given
\* contact, date and time) and returns it with success true.
C3_BookConflictOrInsert ==
    [][\A c \in Clients :
          LET a == call[c].args
              free == ConfirmedAt(a.appointment_date, a.appointment_time) = {}
          IN  /\ (conflictCheck(c, FALSE) /\ call[c].name = "book_appointment") =>
                    /\ appointments' = appointments
                    /\ IF free
                       THEN call'[c].pc = "write" /\ ret'[c] = ret[c]
                       ELSE /\ call'[c].pc = "idle"
                            /\ ret'[c].kind = "return"
                            /\ ~ ret'[c].success
                            /\ ret'[c].error = "Appointment slot already booked"
              /\ (insertQuery(c, FALSE) /\ free /\ Registered(a.contact_number)) =>
                    /\ Len(appointments') = Len(appointments) + 1
                    /\ SubSeq(appointments', 1, Len(appointments)) = appointments
                    /\ Last(appointments').status = "confirmed"
                    /\ Last(appointments').contact_number = a.contact_number
                    /\ Last(appointments').appointment_date = a.appointment_date
                    /\ Last(appointments').appointment_time = a.appointment_time
                    /\ \A i \in DOMAIN appointments :
                          appointments[i].id # Last(appointments').id
                    /\ ret'[c].kind = "return"
                    /\ ret'[c].success
                    /\ ret'[c].data = <<Brief(Last(appointments'))>>
      ]_vars

\* C3 witness: one caller was refused with the conflict error while another
\* caller's booking of that slot is in the table, confirmed
C3_Witness ==
    \E c1, c2 \in Clients :
        /\ ret[c1].error = "Appointment slot already booked"
        /\ ret[c2].success
        /\ \E i \in DOMAIN appointments :
              /\ appointments[i].status = "confirmed"
              /\ <<Brief(appointments[i])>> = ret[c2].data

\* C4: a modify_appointment whose result would give the modified appointment
\* the (date, time) of another confirmed appointment fails with the conflict
\* error and leaves the table unchanged, whether it supplies both new_date
\* and new_time or only one of them.
C4_ModifyNeverDuplicates ==
    [][\A c \in Clients :
          LET a == call[c].args
              mine == Target(appointments, a.appointment_id, a.contact_number)
              clash ==
                  \E i \in mine, j \in DOMAIN appointments :
                      /\ j # i
                      /\ appointments[j].status = "confirmed"
                      /\ appointments[j].appointment_date =
                            (IF Truthy(a.new_date) THEN a.new_date
                             ELSE appointments[i].appointment_date)
                      /\ appointments[j].appointment_time =
                            (IF Truthy(a.new_time) THEN a.new_time
                             ELSE appointments[i].appointment_time)
          IN  (updateQuery(c, FALSE) /\ clash) =>
                  /\ appointments' = appointments
                  /\ ~ ret'[c].success
                  /\ ret'[c].error \in ConflictErrors
      ]_vars

\* C5: cancel_appointment on an appointment that is already cancelled, or
\* that another contact owns, returns the not-found failure and changes no
\* row of the appointment store (status, date, time, update timestamp).
C5_CancelCancelledOrForeign ==
    [][\A c \in Clients :
          LET a == call[c].args
              live == {i \in Target(appointments, a.appointment_id, a.contact_number) :
                          appointments[i].status # "cancelled"}
          IN  (cancelQuery(c, FALSE) /\ live = {}) =>
                  /\ appointments' = appointments
                  /\ ~ ret'[c].success
                  /\ ret'[c].error = "Appointment not found or already cancelled"
      ]_vars

\* the LiveKit session has ended: an end_conversation is among its executed
\* tool calls
RoomEnded ==
    \E i \in DOMAIN session.toolCalls : session.toolCalls[i].name = "end_conversation"

\* C6: once a session has ended, an utterance handed to it is answered with
\* the fixed rejection and changes neither the session state nor the stores
\* nor the ledger; no tool call is dispatched for it any more (ncalls stays),
\* the tool calls that follow end_conversation in the same model response and
\* the tools of the LiveKit context included; and no statement run on its
\* behalf changes users or appointments.
C6_EndedSessionIsSealed ==
    [][/\ state.conversationEnded =>
             /\ (nturns' # nturns /\ turn' # turn) =>
                    /\ turn'[AgentCaller].reply = "The conversation has ended. Thank you!"
                    /\ state' = state
                    /\ costTracker' = costTracker
                    /\ appointments' = appointments /\ users' = users
             /\ call[AgentCaller].pc = "idle" => call'[AgentCaller].pc = "idle"
             /\ call'[AgentCaller] # call[AgentCaller] =>
                    appointments' = appointments /\ users' = users
       /\ RoomEnded =>
             /\ exec.pc = "idle" => exec'.pc = "idle"
             /\ call'[RoomCaller] # call[RoomCaller] =>
                    appointments' = appointments /\ users' = users
      ]_vars

\* C7: for every session id the summary finalizer is invoked at most once
\* and at most one row of conversation_summaries carries the id, however
\* many times end_conversation is dispatched for the session.
C7_OneSummaryPerSession ==
    \A sid \in {state.sessionId, session.sessionId} :
        /\ Cardinality({i \in DOMAIN summarizing : summarizing[i].sessionId = sid}) <= 1
        /\ Cardinality({i \in DOMAIN conversation_summaries :
                            conversation_summaries[i].session_id = sid}) <= 1

\* this step is caller c entering executeTool with the tool name `name`
Dispatches(c, name) ==
    /\ ncalls' = ncalls + 1
    /\ call[c].pc = "idle"
    /\ \A o \in Clients \ {c} : call'[o] = call[o] /\ ret'[o] = ret[o]
    /\ \E args \in DispatchBags(name) : executeTool(c, name, args)

\* C8 (as stated): every call of executeTool, whatever the name, lengthens
\* the ledger by exactly one entry whose service tag is the dispatched name.
C8_EveryCallCosted ==
    [][\A c \in Clients, name \in AllNames :
          Dispatches(c, name) =>
              /\ Len(costTracker') = Len(costTracker) + 1
              /\ Last(costTracker').service = name
      ]_vars

\* C8 (amended): every call of executeTool that names a tool of the catalog,
\* for every argument bag and whether the operation then succeeds or fails,
\* appends exactly one entry to the ledger, tagged with the tool's name, and
\* keeps the entries before it; a name outside the catalog appends nothing;
\* no later statement of the call touches the ledger.
C8_CatalogCallCostedOnce ==
    [][/\ \A c \in Clients, name \in AllNames :
             Dispatches(c, name) =>
                 IF name \in ToolNames
                 THEN /\ Len(costTracker') = Len(costTracker) + 1
                      /\ SubSeq(costTracker', 1, Len(costTracker)) = costTracker
                      /\ Last(costTracker').service = name
                 ELSE costTracker' = costTracker
       /\ ncalls' = ncalls => costTracker' = costTracker
      ]_vars

\* C8 witness: a failed and a successful dispatch have both returned and the
\* ledger holds an entry for each
C8_Witness ==
    /\ Len(costTracker) >= 2
    /\ \E c1, c2 \in Clients :
          /\ ret[c1].kind = "return" /\ ~ ret[c1].success
          /\ ret[c2].kind = "return" /\ ret[c2].success

\* C9: executeTool never lets a failure escape: whatever the tool, the
\* arguments (missing ones included) and the persistence collaborator do,
\* the caller receives an envelope with success true, or success false and
\* an error message.
C9_AlwaysAnEnvelope ==
    \A c \in Clients :
        ret[c].kind # "none" =>
            /\ ret[c].kind = "return"
            /\ ret[c].success \in BOOLEAN
            /\ ~ ret[c].success => Truthy(ret[c].error)

\* C9 witness: one caller's query was rejected by the collaborator, another
\* left out a required argument; both hold failure envelopes
C9_Witness ==
    \E c1, c2 \in Clients :
        /\ ret[c1].kind = "return" /\ ret[c1].error = "connection error"
        /\ ret[c2].kind = "return"
        /\ ret[c2].error \in {"null value violates not-null constraint",
                              "null value in column contact_number"}

\* the stored row of contact k, if any
UserOf(tbl, k) == {u \in tbl : u.contact_number = k}

\* C10: identify_user merges: for name and for email, a supplied value
\* replaces the stored one and an absent value (undefined or '') keeps it;
\* the other users' rows are untouched and the contact has exactly one row.
C10_IdentifyMerges ==
    [][\A c \in Clients :
          LET a == call[c].args
              k == a.contact_number
              old == UserOf(users, k)
              new == UserOf(users', k)
              Stored(f) == IF old = {} THEN NULL ELSE (CHOOSE u \in old : TRUE)[f]
          IN  (identifyQuery(c, FALSE) /\ k # NULL) =>
                  /\ Cardinality(new) = 1
                  /\ \A u \in new :
                        /\ u.name = (IF Truthy(a.name) THEN a.name ELSE Stored("name"))
                        /\ u.email = (IF Truthy(a.email) THEN a.email ELSE Stored("email"))
                        /\ ret'[c].success /\ ret'[c].data = <<u>>
                  /\ users' \ new = users \ old
      ]_vars

\* C10 witness: a stored user whose name was replaced by a later call that
\* gave no email, the email of the earlier call still stored
C10_Witness ==
    \E u \in users :
        /\ u.name = "n2" /\ u.email = "e1" /\ u.updated_at >= 2
        /\ Len(costTracker) = 2

\* C11: identify_user dispatched without a contact_number returns the failure
\* envelope with an error message and leaves the users table as it was, and
\* the fold of that result leaves the session's contact number as it was
\* (AppointmentAgent and LiveKit session alike).
C11_IdentifyWithoutContact ==
    [][/\ \A c \in Clients :
             (/\ call[c].pc = "write" /\ call[c].name = "identify_user"
              /\ call[c].args.contact_number = NULL
              /\ call'[c].pc = "idle") =>
                 /\ users' = users
                 /\ ret'[c].kind = "return"
                 /\ ~ ret'[c].success
                 /\ ret'[c].error \notin {NULL, ""}
       /\ \A p \in Clients :
             (/\ turn[p].pc = "await" /\ turn'[p].pc = "followUp"
              /\ Head(turn[p].tool_calls).name = "identify_user"
              /\ Head(turn[p].tool_calls).arguments.contact_number = NULL) =>
                 /\ state'.contactNumber = state.contactNumber
                 /\ ~ Last(state'.toolCalls).result.success
       /\ (/\ exec.pc = "await" /\ exec'.pc # "await"
           /\ exec.name = "identify_user"
           /\ exec.arguments.contact_number = NULL) =>
              session'.contactNumber = session.contactNumber
      ]_vars

\* C11 witness: the agent resolved c1, then ran an identify_user without a
\* contact number, which failed on the key column; c1 is still resolved and
\* the only user
C11_Witness ==
    /\ state.contactNumber = "c1"
    /\ state.toolCalls # <<>>
    /\ Last(state.toolCalls).name = "identify_user"
    /\ Last(state.toolCalls).arguments.contact_number = NULL
    /\ Last(state.toolCalls).result.error = "null value in column contact_number"
    /\ \A u \in users : u.contact_number = "c1"

\* C12: modify_appointment with neither new_date nor new_time, for every
\* contact and every appointment id (one that exists, one that does not),
\* returns at once with the failure 'No fields to update', runs no statement
\* and leaves the appointment store unchanged.
C12_ModifyWithoutFields ==
    [][\A c \in Clients, k \in Contacts, id \in Ids :
          (/\ ncalls' = ncalls + 1
           /\ executeTool(c, "modify_appointment", ModifyArgs(k, id, NULL, NULL))) =>
              /\ call'[c].pc = "idle"
              /\ ret'[c].kind = "return"
              /\ ~ ret'[c].success
              /\ ret'[c].error = "No fields to update"
              /\ appointments' = appointments
      ]_vars

\* C12 witness: with a confirmed appointment in the table, a modify call was
\* turned down for want of fields
C12_Witness ==
    /\ \E i \in DOMAIN appointments : appointments[i].status = "confirmed"
    /\ \E c \in Clients :
          /\ ret[c].tool = "modify_appointment"
          /\ ret[c].error = "No fields to update"

\* the call of caller c names an appointment that exists and that its
\* contact owns
Owns(c) ==
    \E i \in DOMAIN appointments :
        /\ appointments[i].id = call[c].args.appointment_id
        /\ appointments[i].contact_number = call[c].args.contact_number

NotFoundErrors ==
    {"Appointment not found or already cancelled", "Appointment not found"}

\* caller c's modify_appointment ends at its conflict SELECT
ModifyRefused(c) ==
    /\ conflictCheck(c, FALSE)
    /\ call[c].name = "modify_appointment"
    /\ call'[c].pc = "idle"

\* C13 (as stated): a cancel_appointment or modify_appointment that names an
\* appointment which does not exist or which another contact owns returns,
\* the store answering, the failure envelope with a not-found error, and no
\* appointment is changed.
C13_UnownedIsNotFound ==
    [][\A c \in Clients :
          /\ ((cancelQuery(c, FALSE) \/ updateQuery(c, FALSE) \/ ModifyRefused(c))
               /\ ~ Owns(c)) =>
                  /\ appointments' = appointments
                  /\ ~ ret'[c].success
                  /\ ret'[c].error \in NotFoundErrors
          /\ \A k \in Contacts, id \in Ids :
                (/\ ncalls' = ncalls + 1
                 /\ executeTool(c, "modify_appointment", ModifyArgs(k, id, NULL, NULL))
                 /\ ~ \E i \in DOMAIN appointments :
                         appointments[i].id = id /\ appointments[i].contact_number = k) =>
                    /\ appointments' = appointments
                    /\ ~ ret'[c].success
                    /\ ret'[c].error \in NotFoundErrors
      ]_vars

\* C13 (amended): such a call changes no appointment and returns the
\* failure envelope: cancel_appointment with its not-found error;
\* modify_appointment with 'No fields to update' when neither field is given,
\* with the conflict error when both are given and another confirmed
\* appointment holds the new slot, and with its not-found error otherwise.
C13_UnownedIsRefused ==
    [][\A c \in Clients :
          /\ (cancelQuery(c, FALSE) /\ ~ Owns(c)) =>
                  /\ appointments' = appointments
                  /\ ~ ret'[c].success
                  /\ ret'[c].error = "Appointment not found or already cancelled"
          /\ (updateQuery(c, FALSE) /\ ~ Owns(c)) =>
                  /\ appointments' = appointments
                  /\ ~ ret'[c].success
                  /\ ret'[c].error = "Appointment not found"
          /\ (ModifyRefused(c) /\ ~ Owns(c)) =>
                  /\ appointments' = appointments
                  /\ ~ ret'[c].success
                  /\ ret'[c].error = "New appointment slot already booked"
                  /\ call[c].args.new_date # NULL /\ call[c].args.new_time # NULL
                  /\ ConfirmedAt(call[c].args.new_date, call[c].args.new_time) # {}
          /\ \A k \in Contacts, id \in Ids :
                (/\ ncalls' = ncalls + 1
                 /\ executeTool(c, "modify_appointment", ModifyArgs(k, id, NULL, NULL))) =>
                    /\ appointments' = appointments
                    /\ ~ ret'[c].success
                    /\ ret'[c].error = "No fields to update"
      ]_vars

\* C13 witness: an appointment of one contact is confirmed, and both a cancel
\* and a modify have come back with their not-found errors
C13_Witness ==
    /\ \E i \in DOMAIN appointments : appointments[i].status = "confirmed"
    /\ \E c1, c2 \in Clients :
          /\ ret[c1].error = "Appointment not found or already cancelled"
          /\ ret[c2].error = "Appointment not found"

\* C14: rows of appointments are only ever added, and added with status
\* confirmed; a cancelled row keeps its status, date and time for good; the
\* date or time of a row changes only while the row is confirmed; and no row
\* ever has status completed.
C14_Lifecycle ==
    [][/\ Len(appointments') >= Len(appointments)
       /\ \A i \in DOMAIN appointments' :
             /\ appointments'[i].status # "completed"
             /\ i \notin DOMAIN appointments => appointments'[i].status = "confirmed"
             /\ i \in DOMAIN appointments =>
                   /\ appointments[i].status = "cancelled" =>
                         /\ appointments'[i].status = "cancelled"
                         /\ appointments'[i].appointment_date = appointments[i].appointment_date
                         /\ appointments'[i].appointment_time = appointments[i].appointment_time
                   /\ (\/ appointments'[i].appointment_date # appointments[i].appointment_date
                       \/ appointments'[i].appointment_time # appointments[i].appointment_time) =>
                         appointments[i].status = "confirmed"
      ]_vars

\* this step is invocation p folding the result of the tool call `name`
Folds(p, name) ==
    /\ turn[p].pc = "await" /\ turn'[p].pc = "followUp"
    /\ Head(turn[p].tool_calls).name = name

\* C15: the AppointmentAgent starts with conversationEnded false; the flag
\* turns true only in the step that folds the result of an end_conversation
\* call, and once true it stays true.
C15_TerminalFlag ==
    /\ ~ state.conversationEnded
    /\ [][/\ state.conversationEnded => state'.conversationEnded
          /\ (~ state.conversationEnded /\ state'.conversationEnded) =>
                \E p \in Clients : Folds(p, "end_conversation")
         ]_vars

\* C15 witness: the conversation has ended and a later utterance, turned
\* away, has left the flag set
C15_Witness ==
    /\ state.conversationEnded
    /\ nturns = 2
    /\ turn[AgentCaller].reply = "The conversation has ended. Thank you!"

\* the recorded calls of `name` that returned success
Succeeded(toolCalls, name) ==
    {i \in DOMAIN toolCalls : toolCalls[i].name = name /\ toolCalls[i].result.success}

\* the fold of one session record s into s2
FoldedRight(s, s2) ==
    /\ s2.contactNumber # s.contactNumber =>
          /\ Len(s2.toolCalls) = Len(s.toolCalls) + 1
          /\ Last(s2.toolCalls).name = "identify_user"
          /\ Last(s2.toolCalls).result.success
          /\ s2.contactNumber = Last(s2.toolCalls).arguments.contact_number
    /\ s2.bookedAppointments # s.bookedAppointments =>
          /\ Len(s2.toolCalls) = Len(s.toolCalls) + 1
          /\ Last(s2.toolCalls).name = "book_appointment"
          /\ Last(s2.toolCalls).result.success
          /\ s2.bookedAppointments =
                Append(s.bookedAppointments, Last(s2.toolCalls).result.data[1])

SummariesOf(sid) == {i \in DOMAIN summarizing : summarizing[i].sessionId = sid}

\* C17: while a session has no contact number, no finalizer invocation and
\* no conversation_summaries row exists for its session id and the ledger
\* has no summarization entry of it; the step that folds end_conversation
\* into such a session starts none and still sets conversationEnded.
C17_NoContactNoSummary ==
    /\ [](/\ state.contactNumber = NULL =>
                /\ SummariesOf(state.sessionId) = {}
                /\ \A i \in DOMAIN conversation_summaries :
                      conversation_summaries[i].session_id # state.sessionId
          /\ session.contactNumber = NULL =>
                /\ SummariesOf(session.sessionId) = {}
                /\ \A i \in DOMAIN conversation_summaries :
                      conversation_summaries[i].session_id # session.sessionId
          /\ (state.contactNumber = NULL /\ session.contactNumber = NULL) =>
                \A i \in DOMAIN costTracker :
                    costTracker[i].service \notin {"openai_summary", "openai_summary_output"})
    /\ [][\A p \in Clients :
             (Folds(p, "end_conversation") /\ state.contactNumber = NULL) =>
                 /\ state'.conversationEnded
                 /\ summarizing' = summarizing
                 /\ conversation_summaries' = conversation_summaries
         ]_vars

\* C17 witness: the agent's conversation has ended, the reply was given, and
\* no contact number was ever resolved
C17_Witness ==
    /\ state.conversationEnded
    /\ state.contactNumber = NULL
    /\ turn[AgentCaller].pc = "idle"
    /\ summarizing = <<>>

\* C18: a finalizer invocation that settles without a row written (the
\* summarization collaborator or the INSERT failed) settles with the fixed
\* placeholder text and touches neither session record nor any invocation's
\* standing or result; every recorded end_conversation has success true, and
\* a session with a finalizer invocation is terminal.
C18_SummaryFailureContained ==
    /\ [](/\ \A i \in DOMAIN state.toolCalls :
                state.toolCalls[i].name = "end_conversation" =>
                    state.toolCalls[i].result.success
          /\ \A i \in DOMAIN session.toolCalls :
                session.toolCalls[i].name = "end_conversation" =>
                    session.toolCalls[i].result.success
          /\ SummariesOf(state.sessionId) # {} => state.conversationEnded)
    /\ [][\A i \in DOMAIN summarizing :
             (/\ summarizing[i].pc # "done" /\ summarizing'[i].pc = "done"
              /\ conversation_summaries' = conversation_summaries) =>
                 /\ summarizing'[i].result =
                       "Summary generation failed. Conversation details saved."
                 /\ state' = state /\ session' = session
                 /\ turn' = turn /\ exec' = exec
                 /\ call' = call /\ ret' = ret
         ]_vars

\* C18 witness: the finalizer failed, nothing was persisted, and the turn
\* that ended the conversation has returned its reply
C18_Witness ==
    /\ state.conversationEnded
    /\ turn[AgentCaller].pc = "idle"
    /\ conversation_summaries = <<>>
    /\ \E i \in DOMAIN summarizing :
          /\ summarizing[i].pc = "done"
          /\ summarizing[i].result = "Summary generation failed. Conversation details saved."
    /\ Last(state.toolCalls).name = "end_conversation"
    /\ Last(state.toolCalls).result.success

\* the sum of the costs of a ledger, entry by entry from its head
RECURSIVE LedgerSum(_)
LedgerSum(ledger) ==
    IF ledger = <<>> THEN 0 ELSE Head(ledger).cost + LedgerSum(Tail(ledger))

\* C19: every step either keeps the cost ledger as a prefix of the new
\* ledger (entries are only appended, none changed or dropped) or is a
\* resetCost step, which empties the ledger and changes nothing else; and
\* the total taken with a cost snapshot is the sum of the costs of the
\* entries of that snapshot.
C19_LedgerAppendOnly ==
    /\ [][\/ /\ Len(costTracker') >= Len(costTracker)
             /\ SubSeq(costTracker', 1, Len(costTracker)) = costTracker
          \/ /\ costTracker' = <<>>
             /\ UNCHANGED <<users, appointments, nextId, clock, call, ret, ncalls,
                             conversation_summaries, summarizing, state, turn, nturns,
                             session, exec>>
         ]_vars
    /\ [](\A i \in DOMAIN conversation_summaries :
             conversation_summaries[i].cost_breakdown.total =
                 LedgerSum(conversation_summaries[i].cost_breakdown.breakdown))

\* C19 witness: a summary was persisted with a snapshot of several entries
\* taken after the ledger had been cleared during the session
C19_Witness ==
    \E i \in DOMAIN conversation_summaries :
        LET b == conversation_summaries[i].cost_breakdown
        IN  /\ Len(b.breakdown) >= 2
            /\ b.total > 0
            /\ b.breakdown[1].service # "openai_chat"
            /\ Len(costTracker) >= Len(b.breakdown)

\* C20: while an invocation of processUserMessage is suspended in an await
\* (its own position and its tool call stand still), no step changes the
\* session's transcript, tool calls, booked appointments or terminal flag:
\* the invocations of one session run one after the other.
C20_TurnsDoNotInterleave ==
    [][\A p \in Clients :
          (/\ turn[p].pc # "idle"
           /\ turn'[p] = turn[p]
           /\ call'[p] = call[p] /\ ret'[p] = ret[p]) =>
              state' = state
      ]_vars

\* the step in which caller c receives the envelope of a call of tool `name`
\* that the persistence collaborator did not reject
Answers(c, name) ==
    /\ ret'[c] # ret[c] \/ call'[c] # call[c]
    /\ call'[c].pc = "idle"
    /\ ncalls' = ncalls \/ call[c].pc = "idle"
    /\ ret'[c].tool = name
    /\ ret'[c].error # "connection error"

\* the rows of contact k, of status st when one is given
OwnedBy(k, st) ==
    {i \in DOMAIN appointments :
        /\ appointments[i].contact_number = k
        /\ st # NULL => appointments[i].status = st}

\* C21: retrieve_appointments(contact, status?) succeeds with exactly the
\* appointments of that contact (of that status when one is given), each
\* once and with its own date, time and status, none of another contact,
\* later dates first and within a date later times first, and count is the
\* number of appointments listed.
C21_RetrieveOwnSorted ==
    [][\A c \in Clients :
          Answers(c, "retrieve_appointments") =>
              LET r == ret'[c]
                  own == OwnedBy(call[c].args.contact_number, call[c].args.status)
              IN  /\ r.success
                  /\ r.count = Len(r.data)
                  /\ Len(r.data) = Cardinality(own)
                  /\ \A j \in own : \E i \in DOMAIN r.data :
                        r.data[i] = [id |-> appointments[j].id,
                                     date |-> appointments[j].appointment_date,
                                     time |-> appointments[j].appointment_time,
                                     status |-> appointments[j].status]
                  /\ \A i, j \in DOMAIN r.data :
                        i < j =>
                            \/ Ord(r.data[i].date) > Ord(r.data[j].date)
                            \/ /\ r.data[i].date = r.data[j].date
                               /\ Ord(r.data[i].time) >= Ord(r.data[j].time)
      ]_vars

\* C21 witness: a contact holding two appointments on different dates, the
\* earlier one booked last, has retrieved both, later date first, while the
\* other contact holds an appointment too
C21_Witness ==
    \E c \in Clients :
        /\ ret[c].tool = "retrieve_appointments" /\ ret[c].success
        /\ ret[c].count = 2
        /\ Ord(ret[c].data[1].date) > Ord(ret[c].data[2].date)
        /\ ret[c].data[1].id > ret[c].data[2].id
        /\ \E i, j \in DOMAIN appointments :
              /\ appointments[i].id = ret[c].data[1].id
              /\ appointments[j].contact_number # appointments[i].contact_number

\* the positions of the catalog that are available and fall on date d (on any
\* date when d is NULL)
CatalogOn(d) ==
    {i \in DOMAIN AVAILABLE_SLOTS :
        /\ AVAILABLE_SLOTS[i].available
        /\ d # NULL => AVAILABLE_SLOTS[i].date = d}

\* C22: fetch_slots succeeds with exactly the available catalog slots of the
\* date it was given, all available catalog slots when no date was given, in
\* catalog order, five of them for 2024-01-15 and fifteen without a date,
\* whatever the appointment store holds; count is the number of slots.
C22_SlotsFromCatalogOnly ==
    [][\A c \in Clients, d \in FetchDates :
          executeTool(c, "fetch_slots", FetchArgs(d)) =>
              LET r == ret'[c]
                  on == CatalogOn(d)
              IN  /\ r.success
                  /\ r.count = Len(r.data)
                  /\ Len(r.data) = Cardinality(on)
                  /\ \A i \in on :
                        r.data[Cardinality({j \in on : j <= i})] =
                            [date |-> AVAILABLE_SLOTS[i].date,
                             time |-> AVAILABLE_SLOTS[i].time]
                  /\ d = "2024-01-15" => Len(r.data) = 5
                  /\ d = NULL => Len(r.data) = 15
      ]_vars

\* C22 witness: fetch_slots for 2024-01-15 has returned five slots, among
\* them 09:00, which holds a confirmed appointment
C22_Witness ==
    \E c \in Clients :
        /\ ret[c].tool = "fetch_slots"
        /\ ret[c].count = 5
        /\ ret[c].data[1] = [date |-> "2024-01-15", time |-> "09:00"]
        /\ ConfirmedAt("2024-01-15", "09:00") # {}

\* the transcript turn that carries a tool result
ToolTurn(result) ==
    [role |-> "tool", content |-> IF result.success THEN "ok" ELSE result.error]

\* the step that folds a tool call happens after its dispatch has returned,
\* appends the assistant tool-call turn and then the tool-result turn of that
\* call, and leaves the invocation waiting for the follow-up; and in every
\* transcript an assistant tool-call turn is followed at once by a tool turn
DispatchedThenFolded ==
    /\ [](\A i \in DOMAIN state.messages :
             (state.messages[i].role = "assistant" /\ state.messages[i].content = NULL) =>
                 /\ i < Len(state.messages)
                 /\ state.messages[i + 1].role = "tool")
    /\ [][\A p \in Clients :
             /\ (turn[p].pc = "await" /\ turn'[p].pc # "await") =>
                   /\ call[p].pc = "idle"
                   /\ ret[p].tool = Head(turn[p].tool_calls).name
                   /\ turn'[p].pc = "followUp"
                   /\ Last(state'.toolCalls).name = Head(turn[p].tool_calls).name
                   /\ Last(state'.toolCalls).result = ret[p]
                   /\ state'.messages = state.messages \o
                         << [role |-> "assistant", content |-> NULL], ToolTurn(ret[p]) >>
             /\ (turn[p].pc # "followUp" /\ turn'[p].pc = "followUp") =>
                   turn[p].pc = "await"
         ]_vars

\* invocation p, having folded its tool calls, yields the turn in this step
YieldsAfterTools(p) == turn[p].pc = "followUp" /\ turn'[p].pc = "idle"

IsPrefix(l, m) == Len(l) <= Len(m) /\ SubSeq(m, 1, Len(l)) = l

\* the tool calls the agent recorded up to its first end_conversation
UpToFirstEnd ==
    {i \in DOMAIN state.toolCalls :
        \A j \in 1 .. (i - 1) : state.toolCalls[j].name # "end_conversation"}

\* C24: the booked-appointment lists only grow at their end, whatever is
\* cancelled or moved later; every ConversationSummary persisted for the
\* agent's session lists, as it was returned at booking, every appointment
\* booked before the first end_conversation, its cost total is the sum of its
\* entries, and its breakdown holds an entry for each tool call recorded up
\* to that end_conversation.
C24_SnapshotSurvivesCancel ==
    /\ [][/\ IsPrefix(state.bookedAppointments, state'.bookedAppointments)
          /\ IsPrefix(session.bookedAppointments, session'.bookedAppointments)]_vars
    /\ [](\A r \in DOMAIN conversation_summaries :
             LET row == conversation_summaries[r]
                 entries == row.cost_breakdown.breakdown
             IN  row.session_id = state.sessionId =>
                   /\ row.cost_breakdown.total = LedgerSum(entries)
                   /\ IsPrefix(row.booked_appointments, state.bookedAppointments)
                   /\ \A i \in UpToFirstEnd :
                         LET tc == state.toolCalls[i]
                         IN  /\ (tc.name = "book_appointment" /\ tc.result.success) =>
                                   \E k \in DOMAIN row.booked_appointments :
                                       row.booked_appointments[k] = tc.result.data[1]
                             /\ Cardinality({e \in DOMAIN entries :
                                                 entries[e].service = tc.name}) >=
                                   Cardinality({j \in UpToFirstEnd :
                                                   state.toolCalls[j].name = tc.name}))

\* C24 witness: a summary was persisted that lists appointment 1 at the slot
\* it was booked for, while the appointments table holds it cancelled
C24_Witness ==
    \E r \in DOMAIN conversation_summaries :
        /\ conversation_summaries[r].booked_appointments =
              << [id |-> 1, date |-> "2024-01-15", time |-> "09:00"] >>
        /\ Len(conversation_summaries[r].cost_breakdown.breakdown) >= 4
        /\ appointments[1].status = "cancelled"

\* the turns of a transcript that the user wrote
UserTurns(messages) ==
    SelectRows(messages, {i \in DOMAIN messages : messages[i].role = "user"}, 1)

\* some user turn of the transcript contains the word, in any case of letters
UserSaid(messages, word) ==
    \E i \in DOMAIN messages :
        /\ messages[i].role = "user"
        /\ includes(toLowerCase(Chars(messages[i].content)), Chars(word))

\* C25: the tags the finalizer derives from the agent's transcript are the
\* tags of that transcript with every turn not written by the user struck
\* out; time_preference is afternoon exactly when a user turn contains
\* afternoon or pm, morning exactly when none does and a user turn contains
\* morning or am, and absent otherwise; priority is urgent exactly when a
\* user turn contains urgent or asap, and absent otherwise; the persisted
\* row carries these tags.
C25_TagsFromUserTurns ==
    [][/\ Len(summarizing') = Len(summarizing) + 1 =>
             LET tags == Last(summarizing').userPreferences
                 late == UserSaid(state.messages, "afternoon") \/ UserSaid(state.messages, "pm")
                 early == UserSaid(state.messages, "morning") \/ UserSaid(state.messages, "am")
                 rush == UserSaid(state.messages, "urgent") \/ UserSaid(state.messages, "asap")
             IN  /\ tags = extractPreferences(UserTurns(state.messages))
                 /\ tags.time_preference =
                       IF late THEN "afternoon" ELSE IF early THEN "morning" ELSE NULL
                 /\ tags.priority = IF rush THEN "urgent" ELSE NULL
       /\ Len(conversation_summaries') = Len(conversation_summaries) + 1 =>
             \E i \in DOMAIN summarizing :
                 /\ summarizing[i].pc = "save" /\ summarizing'[i].pc = "done"
                 /\ Last(conversation_summaries').user_preferences =
                       summarizing[i].userPreferences
      ]_vars

\* C25 witness: the user spoke of the morning and then of 3pm, the model
\* replied with the word urgent, and the persisted tags are afternoon
\* without a priority
C25_Witness ==
    /\ UserSaid(state.messages, "morning") /\ UserSaid(state.messages, "pm")
    /\ \E i \in DOMAIN state.messages :
          state.messages[i] = [role |-> "assistant", content |-> "urgent"]
    /\ \E r \in DOMAIN conversation_summaries :
          conversation_summaries[r].user_preferences =
              [time_preference |-> "afternoon", priority |-> NULL]

ReadOnlyTools == {"fetch_slots", "retrieve_appointments", "end_conversation"}

\* this step is one of executeTool running for caller c on a read-only tool:
\* its dispatch, its query, or its return
RunsReadOnly(c) ==
    /\ call'[c] # call[c] \/ ret'[c] # ret[c]
    /\ \/ call'[c].pc # "idle" /\ call'[c].name \in ReadOnlyTools
       \/ call'[c].pc = "idle" /\ ret'[c].tool \in ReadOnlyTools

\* C26: no step of fetch_slots, retrieve_appointments or end_conversation
\* changes the users table, any appointment or the id sequence; dispatching
\* end_conversation appends its one cost entry, and folding its result
\* appends its tool-call record, sets the terminal flag and at most starts the
\* finalizer, leaving contact, bookings and both tables as they were.
C26_ReadOnlyTools ==
    [][\A c \in Clients :
          /\ RunsReadOnly(c) =>
                /\ users' = users /\ appointments' = appointments
                /\ nextId' = nextId /\ clock' = clock
                /\ conversation_summaries' = conversation_summaries
          /\ (RunsReadOnly(c) /\ ret'[c] # ret[c] /\ ret'[c].tool = "end_conversation") =>
                /\ ret'[c].success
                /\ Last(costTracker') =
                      [service |-> "end_conversation", cost |-> 100, unit |-> "call"]
                /\ state' = state /\ summarizing' = summarizing
          /\ Folds(c, "end_conversation") =>
                /\ users' = users /\ appointments' = appointments
                /\ conversation_summaries' = conversation_summaries
                /\ state'.contactNumber = state.contactNumber
                /\ state'.bookedAppointments = state.bookedAppointments
                /\ state'.conversationEnded
                /\ state'.toolCalls =
                      Append(state.toolCalls,
                             [name |-> "end_conversation", arguments |-> NoArgs,
                              result |-> ret[c]])
                /\ \/ summarizing' = summarizing
                   \/ /\ Len(summarizing') = Len(summarizing) + 1
                      /\ SubSeq(summarizing', 1, Len(summarizing)) = summarizing
      ]_vars

\* C26 witness: with a confirmed appointment in the store the agent has
\* listed the slots, retrieved the appointments and ended the conversation
C26_Witness ==
    /\ \A n \in ReadOnlyTools :
          \E i \in DOMAIN state.toolCalls :
              state.toolCalls[i].name = n /\ state.toolCalls[i].result.success
    /\ state.conversationEnded
    /\ \E i \in DOMAIN appointments : appointments[i].status = "confirmed"

\* the tools dispatched so far, in the order of their dispatch: executeTool
\* enters a catalogued tool by appending its cost entry
Dispatched ==
    LET entries == SelectRows(costTracker,
                       {i \in DOMAIN costTracker : costTracker[i].service \in ToolNames}, 1)
    IN  [i \in DOMAIN entries |-> entries[i].service]

\* the tools recorded in a tool-call list, in the order of the list
Recorded(toolCalls) == [i \in DOMAIN toolCalls |-> toolCalls[i].name]

\* the invocations of processUserMessage that wait for executeTool
Waiting == {p \in Clients : turn[p].pc = "await"}

OwnConfirmed(c) ==
    {i \in DOMAIN appointments :
        /\ appointments[i].id = call[c].args.appointment_id
        /\ appointments[i].contact_number = call[c].args.contact_number
        /\ appointments[i].status = "confirmed"}

\* C28: a cancel_appointment by the owning contact on a confirmed
\* appointment, the store answering, returns success and leaves the
\* appointment cancelled, whatever the contact booked and cancelled before.
C28_OwnerCancelSucceeds ==
    [][\A c \in Clients :
          (cancelQuery(c, FALSE) /\ OwnConfirmed(c) # {}) =>
              /\ ret'[c].success
              /\ \A i \in OwnConfirmed(c) : appointments'[i].status = "cancelled"
      ]_vars

\* the cancelled appointments at (d, t)
CancelledAt(d, t) ==
    {i \in DOMAIN appointments :
        /\ appointments[i].appointment_date = d
        /\ appointments[i].appointment_time = t
        /\ appointments[i].status = "cancelled"}

\* caller c's book_appointment asks for a slot that a cancellation has freed:
\* its contact is stored, an appointment at the slot is cancelled and none is
\* confirmed
BooksFreedSlot(c) ==
    /\ call[c].name = "book_appointment"
    /\ Registered(call[c].args.contact_number)
    /\ CancelledAt(call[c].args.appointment_date, call[c].args.appointment_time) # {}
    /\ ConfirmedAt(call[c].args.appointment_date, call[c].args.appointment_time) = {}

\* C29: a book_appointment by a stored contact for a slot with a cancelled
\* and no confirmed appointment passes the conflict check, and its INSERT,
\* the store answering, succeeds and leaves one confirmed appointment of the
\* contact at the slot; the contact who cancelled is no exception.
C29_CancelFreesSlot ==
    [][\A c \in Clients :
          /\ (conflictCheck(c, FALSE) /\ BooksFreedSlot(c)) => call'[c].pc = "write"
          /\ (insertQuery(c, FALSE) /\ BooksFreedSlot(c)) =>
                /\ ret'[c].success
                /\ Len(appointments') = Len(appointments) + 1
                /\ Last(appointments').contact_number = call[c].args.contact_number
                /\ Last(appointments').status = "confirmed"
                /\ Last(appointments').appointment_date = call[c].args.appointment_date
                /\ Last(appointments').appointment_time = call[c].args.appointment_time
                /\ \A i \in DOMAIN appointments : appointments'[i] = appointments[i]
      ]_vars

\* C29 witness: a contact holds a confirmed appointment at the slot of an
\* appointment it cancelled earlier, and the booking returned success
C29_Witness ==
    \E c \in Clients, i, j \in DOMAIN appointments :
        /\ i < j
        /\ appointments[i].status = "cancelled"
        /\ appointments[j].status = "confirmed"
        /\ appointments[i].contact_number = appointments[j].contact_number
        /\ appointments[i].appointment_date = appointments[j].appointment_date
        /\ appointments[i].appointment_time = appointments[j].appointment_time
        /\ ret[c].tool = "book_appointment" /\ ret[c].success
        /\ ret[c].data[1].id = appointments[j].id

\* C30: every stored appointment belongs to a stored user, and the INSERT of
\* a book_appointment whose contact is not a stored user returns a failure
\* envelope and leaves the appointments as they were.
C30_AppointmentsHaveUsers ==
    /\ [](\A i \in DOMAIN appointments : Registered(appointments[i].contact_number))
    /\ [][\A c \in Clients, fail \in BOOLEAN :
            (insertQuery(c, fail) /\ ~ Registered(call[c].args.contact_number)) =>
                /\ ~ ret'[c].success
                /\ ret'[c].kind = "return"
                /\ appointments' = appointments
         ]_vars

\* C30 witness: a book_appointment for a contact that identify_user never
\* stored was rejected by the foreign key, while a stored contact holds an
\* appointment
C30_Witness ==
    \E c \in Clients :
        /\ ret[c].tool = "book_appointment"
        /\ ret[c].error = "violates foreign key constraint"
        /\ appointments # <<>>
        /\ ~ Registered("c2")

\* invocation p of processUserMessage yields: it was past its first await
\* and has returned
Yields(p) == turn[p].pc # "idle" /\ turn'[p].pc = "idle"

\* the transcripts handed to generateSummary by the AppointmentAgent
Handed(tasks) ==
    {tasks[i].messages : i \in {j \in DOMAIN tasks : tasks[j].owner = "agent"}}

\* C31: when a turn in which end_conversation was dispatched yields, the
\* transcript that was handed to the summary finalizer holds every turn of
\* the session's transcript as it stands at the end of that turn, the
\* tool-call and tool-result turns of end_conversation and the final
\* assistant reply included.
C31_FullTranscriptHanded ==
    [][\A p \in Clients :
          Yields(p) =>
              \A handed \in Handed(summarizing') :
                  /\ Len(handed) = Len(state'.messages)
                  /\ \A k \in DOMAIN handed : handed[k].role = state'.messages[k].role
      ]_vars

\* the tools that the entries of a cost breakdown were charged for, in order
ToolEntries(breakdown) ==
    LET entries == SelectRows(breakdown,
                       {i \in DOMAIN breakdown : breakdown[i].service \in ToolNames}, 1)
    IN  [i \in DOMAIN entries |-> entries[i].service]

\* the number of summary requests charged in a cost breakdown
SummaryEntries(breakdown) ==
    Cardinality({i \in DOMAIN breakdown : breakdown[i].service = "openai_summary"})

\* C32: the cost breakdown of the ConversationSummary row built for a room's
\* session holds the entries of that session's operations only: its tool
\* entries are the session's own tool calls, in order, and its summary
\* requests are those made for that session.
C32_OwnCostsOnly ==
    \A i \in DOMAIN summarizing :
        (summarizing[i].pc = "save" /\ summarizing[i].owner = "room") =>
            LET row == summarizing[i].row[1]
            IN  /\ row.session_id = session.sessionId
                /\ ToolEntries(row.cost_breakdown.breakdown) = Recorded(session.toolCalls)
                /\ SummaryEntries(row.cost_breakdown.breakdown) =
                      Cardinality({j \in DOMAIN summarizing :
                                      summarizing[j].sessionId = row.session_id})

\* the positions of the log at which an agent was dispatched to room
DispatchesOf(room) ==
    {i \in DOMAIN dispatchLog :
        dispatchLog[i] = [event |-> "createDispatch", room |-> room]}

\* C33: between two successful createDispatch calls for one room, the room's
\* entry has been removed from dispatchedRooms.
C33_DispatchedOncePerRoom ==
    \A room \in Rooms :
        \A i, j \in DispatchesOf(room) :
            i < j =>
                \E k \in i + 1 .. j - 1 :
                    dispatchLog[k] = [event |-> "delete", room |-> room]

ErrorApology == "I apologize, but I encountered an error. Please try again."
NoMessageApology == "I apologize, but I could not generate a response."

\* invocation p returns `text` and leaves the session as the turn had
\* brought it so far: the transcript with the user's utterance, the recorded
\* tool calls and bookings, the store, and the terminal flag, which is set
\* only when an end_conversation call is on record
Apologises(p, text) ==
    /\ turn'[p] = Returned(text)
    /\ IsPrefix(state.messages, state'.messages)
    /\ \E k \in DOMAIN state'.messages : state'.messages[k].role = "user"
    /\ state'.toolCalls = state.toolCalls
    /\ state'.bookedAppointments = state.bookedAppointments
    /\ state'.contactNumber = state.contactNumber
    /\ users' = users /\ appointments' = appointments
    /\ state'.conversationEnded = state.conversationEnded
    /\ state'.conversationEnded =>
          \E k \in DOMAIN state'.toolCalls : state'.toolCalls[k].name = "end_conversation"

\* the model asks for one call whose arguments are no JSON
MalformedCall == Completion(NULL, <<[name |-> "book_appointment", arguments |-> Malformed]>>)

\* every invocation that has returned has handed its caller a reply
AlwaysReplies ==
    \A p \in Clients : (turn[p].pc = "idle" /\ turn[p] # Returned(NULL)) => turn[p].reply # NULL

\* the faults of the first request and of the loop: a failed chat or
\* follow-up request and unparsable arguments end in the error apology, a
\* first response without a message in the no-response apology
FaultsApologised(p) ==
    /\ chatResponds(p, TRUE, TRUE, Completion(NULL, <<>>)) => Apologises(p, ErrorApology)
    /\ followUpResponds(p, TRUE, NULL, 0) => Apologises(p, ErrorApology)
    /\ chatResponds(p, FALSE, TRUE, MalformedCall) => Apologises(p, ErrorApology)
    /\ (/\ followUpResponds(p, FALSE, NULL, 0)
        /\ Len(turn[p].tool_calls) > 1
        /\ ~ Parses(turn[p].tool_calls[2].arguments)) =>
            Apologises(p, ErrorApology)
    /\ chatResponds(p, FALSE, FALSE, Completion(NULL, <<>>)) =>
            Apologises(p, NoMessageApology)

\* the follow-up request after the last tool call of the response is
\* answered without a message
SilentFollowUp(p) ==
    /\ followUpResponds(p, FALSE, NULL, 0)
    /\ Len(turn[p].tool_calls) = 1

\* C34 (as stated): processUserMessage always returns a reply; when a chat
\* or follow-up request fails, is answered without a message, or the next
\* tool call's arguments cannot be parsed, the reply is a fixed apology, the
\* transcript keeps the user's utterance, the tool calls executed so far
\* stay recorded with their store effects, and the terminal flag is as it
\* was, set only if end_conversation is on record.
C34_FaultsAnsweredWithApology ==
    /\ []AlwaysReplies
    /\ [][\A p \in Clients :
            /\ FaultsApologised(p)
            /\ SilentFollowUp(p) =>
                    \/ Apologises(p, ErrorApology)
                    \/ Apologises(p, NoMessageApology)
         ]_vars

\* C34 (amended): as above, except that a follow-up request answered
\* without a message is no fault: the turn goes on with the assistant text
\* it has so far, which may be empty, and yields it as an assistant turn,
\* with the recorded tool calls, the store and the terminal flag as they were.
C34_FaultsAnsweredUnlessFollowUpSilent ==
    /\ []AlwaysReplies
    /\ [][\A p \in Clients :
            /\ FaultsApologised(p)
            /\ SilentFollowUp(p) =>
                    /\ turn'[p] = Returned(turn[p].assistantResponse)
                    /\ state' = [state EXCEPT
                           !.messages = Append(@, Message("assistant",
                                                          turn[p].assistantResponse))]
                    /\ users' = users /\ appointments' = appointments
         ]_vars

\* C34 witness: a first turn identified the contact and its follow-up was
\* answered without a message, so the reply was the empty text; a second
\* turn ran a tool call and then met one whose arguments could not be parsed:
\* the agent answered with the apology, both tool calls are on record, the
\* user is stored, and the session is not ended
C34_Witness ==
    /\ nturns = 2
    /\ turn[AgentCaller].reply = ErrorApology
    /\ \E k \in DOMAIN state.messages : state.messages[k] = Message("assistant", "")
    /\ Len(state.toolCalls) = 2 /\ state.toolCalls[1].result.success
    /\ users # {}
    /\ Last(state.messages).role = "tool"
    /\ ~ state.conversationEnded

====
